---- MODULE Spec2Model ----
(***************************************************************************)
(* A model of kNet's UDP message connection: the generic MessageConnection *)
(* scaffolding (src/src/MessageConnection.cpp), the UDP engine             *)
(* (src/src/UDPMessageConnection.cpp) and the steps the network worker     *)
(* thread issues on it (src/src/NetworkWorkerThread.cpp).                  *)
(*                                                                         *)
(* Two connections, "A" and "B", are each other's peer.  All fields of one *)
(* connection object are kept in one record, conn[c]; every method of the  *)
(* source is an operator from a connection record to the connection record *)
(* the method leaves behind, so that a handler which calls other methods   *)
(* is the composition of their operators.  Floating point quantities are   *)
(* kept as integers in thousandths.  The clock is an input: where the code *)
(* compares a tick with Clock::Tick() the model draws the outcome.         *)
(***************************************************************************)
EXTENDS Integers, Sequences, FiniteSets, TLC

(***************************************************************************)
(* Bounds of the model.                                                    *)
(***************************************************************************)
PoolSize == 7          \* message objects of one connection's pool
MaxSubmit == 2         \* SendMessage calls of the application
MaxContentSubmit == 3  \* SendMessage calls where the messages share a content id
MaxDiscSubmit == 1     \* SendMessage calls before a Disconnect
MaxLoss == 1           \* datagrams the network drops
MaxDup == 1            \* datagrams the network delivers twice
MaxTimeouts == 1       \* retransmission timeouts that fire
MaxInject == 2         \* datagrams a foreign peer implementation sends
MaxBurst == 1          \* datagrams the pacing timer allows in one SendOutPackets call
MaxAckRun == 34        \* consecutive packet ids pending for an ack at the start
MaxFullSubmit == 3     \* SendMessage calls on a full accept queue
MaxPauseSubmit == 4    \* SendMessage calls around a pause of the outbound sends
MaxPauses == 2         \* PauseOutboundSends calls
MaxCuts == 1           \* datagrams that arrive cut short
MaxPings == 2          \* ping requests sent while the peer is still heard
MaxSendSize == 1400    \* Socket::MaxSendSize() of the UDP socket

Conn == {"A", "B"}
Peer(c) == IF c = "A" THEN "B" ELSE "A"
Ptr == 0 .. (PoolSize - 1)
NoTransfer == -1

(***************************************************************************)
(* Program constants.                                                      *)
(***************************************************************************)
MsgIdPingRequest == 1
MsgIdPingReply == 2
MsgIdFlowControlRequest == 3
MsgIdPacketAck == 4
MsgIdDisconnect == 1073741823
MsgIdDisconnectAck == 1073741822
cMaxPriority == 1000
sendHeaderUpperBound == 32
cBytesForInOrderDeltaCounter == 2
PacketIDModulus == 4194304
ReceivedPacketIDsCapacity == 65536
InboundQueueCapacity == 524288
AcceptQueueCapacity == 262144
numMessagesToAcceptPerFrame == 500
MinInboundCapacityLeft == 64
initialRetransmissionTimeout == 3000
minRTOTimeoutValue == 1000000
maxRTOTimeoutValue == 5000000
initialDatagramSendRate == 70000
unsetReliableMessageNumber == 2147483647

(***************************************************************************)
(* Small helpers.                                                          *)
(***************************************************************************)
Min(a, b) == IF a < b THEN a ELSE b
Max(a, b) == IF a > b THEN a ELSE b
Abs(a) == IF a < 0 THEN 0 - a ELSE a
Range(q) == {q[i] : i \in DOMAIN q}
RemoveAt(q, i) == SubSeq(q, 1, i - 1) \o SubSeq(q, i + 1, Len(q))
InsertAt(q, i, x) == SubSeq(q, 1, i - 1) \o <<x>> \o SubSeq(q, i, Len(q))
MinOf(S) == CHOOSE x \in S : \A y \in S : x <= y

\* Packet ids are 22-bit numbers.
AddPacketID(id, n) == (id + n) % PacketIDModulus
PacketIDIsNewerThan(a, b) ==
    /\ a # b
    /\ ((a - b + PacketIDModulus) % PacketIDModulus) < (PacketIDModulus \div 2)

\* The byte length of a VLE8_16_32 encoded value.
VLE8_16_32_Bytes(v) == IF v < 128 THEN 1 ELSE IF v < 16384 THEN 2 ELSE 4

(***************************************************************************)
(* Payloads.  A payload is a sequence of chunks <<src, from, len>>: len     *)
(* bytes of the application buffer src starting at offset from.  Adjacent  *)
(* chunks of one buffer are the same bytes as their union.                 *)
(***************************************************************************)
RECURSIVE Normalize(_)
Normalize(d) ==
    IF Len(d) < 2 THEN d
    ELSE LET a == d[1]
             b == d[2]
         IN IF a[1] = b[1] /\ a[2] + a[3] = b[2]
            THEN Normalize(<<(<<a[1], a[2], a[3] + b[3]>>)>> \o SubSeq(d, 3, Len(d)))
            ELSE <<a>> \o Normalize(Tail(d))

RECURSIVE BytesOf(_)
BytesOf(d) == IF d = <<>> THEN 0 ELSE d[1][3] + BytesOf(Tail(d))

Buffer(src, size) == IF size = 0 THEN <<>> ELSE <<(<<src, 0, size>>)>>

(***************************************************************************)
(* NetworkMessage objects live in the connection's pool.  A freed object   *)
(* keeps its bytes until it is handed out again.                           *)
(***************************************************************************)
\* The number fields of an object the pool has constructed and no code has
\* assigned hold Indeterminate: their value is fixed by the first read.
Indeterminate == 0 - 1

FreshMessage ==
    [id |-> 0, reliable |-> FALSE, inOrder |-> FALSE, priority |-> 0,
     contentID |-> 0, messageNumber |-> Indeterminate,
     reliableMessageNumber |-> Indeterminate,
     sendCount |-> 0, obsolete |-> FALSE, transfer |-> NoTransfer,
     fragmentIndex |-> 0, data |-> <<>>, dataSize |-> 0, ctl |-> <<>>]

AllocateNewMessage(s) == MinOf(s.freePtrs)

\* The object p turns out to hold g where nothing was assigned.
ReadsAs(s, p, g) ==
    [s EXCEPT !.heap[p].messageNumber = IF @ = Indeterminate THEN g ELSE @,
              !.heap[p].reliableMessageNumber = IF @ = Indeterminate THEN g ELSE @]

FreeMessage(s, p) == [s EXCEPT !.freePtrs = @ \cup {p}]

RECURSIVE FreeMessages(_, _)
FreeMessages(s, ps) ==
    IF ps = <<>> THEN s ELSE FreeMessages(FreeMessage(s, ps[1]), Tail(ps))

\* StartNewMessage sets id, reliable, contentID, obsolete, priority, transfer
\* and the buffer; every other field keeps what the object held before.
StartNewMessage(s, p, id, data) ==
    [s EXCEPT !.freePtrs = @ \ {p},
              !.heap[p] = [@ EXCEPT !.id = id, !.reliable = FALSE,
                                    !.contentID = 0, !.obsolete = FALSE,
                                    !.priority = 0, !.transfer = NoTransfer,
                                    !.data = data, !.dataSize = BytesOf(data),
                                    !.ctl = <<>>]]

\* NetworkMessage::IsNewerThan: the 32-bit message numbers compared with wrap.
IsNewerThan(a, b) ==
    LET d == a.messageNumber - b.messageNumber
    IN \/ d > 0 /\ d <= 2147483647
       \/ d < 0 /\ d < 0 - 2147483647

(***************************************************************************)
(* The send priority queue: highest priority first, and of equal priority  *)
(* the lower message number first.                                         *)
(***************************************************************************)
SendsBefore(a, b) ==
    \/ a.priority > b.priority
    \/ a.priority = b.priority /\ a.messageNumber < b.messageNumber

InsertWithResize(s, p) ==
    LET q == s.outboundQueue
        before == {i \in DOMAIN q : ~SendsBefore(s.heap[p], s.heap[q[i]])}
        pos == Cardinality(before) + 1
    IN [s EXCEPT !.outboundQueue = InsertAt(q, pos, p)]

RECURSIVE InsertAllWithResize(_, _)
InsertAllWithResize(s, ps) ==
    IF ps = <<>> THEN s
    ELSE InsertAllWithResize(InsertWithResize(s, ps[1]), Tail(ps))

(***************************************************************************)
(* MessageConnection: state queries.                                       *)
(***************************************************************************)
IsWriteOpen(s) ==
    /\ s.socketWriteOpen
    /\ s.connectionState # "ConnectionDisconnecting"
    /\ s.connectionState # "ConnectionClosed"

(***************************************************************************)
(* MessageConnection::CheckAndSaveOutboundMessageWithContentID.            *)
(***************************************************************************)
CheckAndSaveOutboundMessageWithContentID(s, p) ==
    LET msg == s.heap[p]
        key == <<msg.id, msg.contentID>>
    IN IF msg.contentID = 0 THEN s
       ELSE IF key \in DOMAIN s.outboundContentIDMessages
       THEN LET old == s.outboundContentIDMessages[key]
            IN IF IsNewerThan(msg, s.heap[old])
               THEN [s EXCEPT !.heap[old].obsolete = TRUE,
                              !.outboundContentIDMessages[key] = p]
               ELSE [s EXCEPT !.heap[p].obsolete = TRUE]
       ELSE [s EXCEPT !.outboundContentIDMessages =
                         [k \in (DOMAIN @) \cup {key} |->
                             IF k = key THEN p ELSE @[k]]]

(***************************************************************************)
(* FragmentedSendManager: the transfers of this connection that still have *)
(* unacknowledged fragments.  A transfer is named by a handle; its 8-bit   *)
(* wire id is -1 until SendOutPacket allocates one.                        *)
(***************************************************************************)
AllocateNewFragmentedTransfer(s) ==
    [s EXCEPT !.nextTransfer = @ + 1,
              !.fragmentedSends =
                  [h \in (DOMAIN @) \cup {s.nextTransfer} |->
                      IF h = s.nextTransfer
                      THEN [id |-> -1, totalNumFragments |-> 0, fragments |-> {}]
                      ELSE @[h]]]

FreeTransferIDs(s) ==
    (0 .. 255) \ {s.fragmentedSends[h].id : h \in DOMAIN s.fragmentedSends}

AllocateFragmentedTransferID(s, h) ==
    [s EXCEPT !.fragmentedSends[h].id = MinOf(FreeTransferIDs(s))]

\* RemoveMessage: the fragment leaves its transfer; an empty transfer is released.
RemoveMessage(s, h, p) ==
    IF h \notin DOMAIN s.fragmentedSends THEN s
    ELSE LET left == s.fragmentedSends[h].fragments \ {p}
         IN IF left = {}
            THEN [s EXCEPT !.fragmentedSends =
                              [k \in (DOMAIN @) \ {h} |-> @[k]]]
            ELSE [s EXCEPT !.fragmentedSends[h].fragments = left]

\* len bytes of payload d from byte offset off on.
RECURSIVE Slice(_, _, _)
Slice(d, off, len) ==
    IF len = 0 \/ d = <<>> THEN <<>>
    ELSE LET c == d[1]
         IN IF off >= c[3] THEN Slice(Tail(d), off - c[3], len)
            ELSE LET n == Min(len, c[3] - off)
                 IN <<(<<c[1], c[2] + off, n>>)>> \o Slice(Tail(d), 0, len - n)

(***************************************************************************)
(* MessageConnection::SplitAndQueueMessage.  The fragments copy the        *)
(* parent's reliableMessageNumber, which EndAndQueueMessage has not        *)
(* assigned at this point: it is whatever the parent object held.          *)
(***************************************************************************)
\* outboundAcceptQueue.Insert succeeds.
AcceptQueueHasRoom(s) ==
    s.acceptQueueBacklog + Len(s.outboundAcceptQueue) < AcceptQueueCapacity

\* A "Critical" line is logged and assert(false) evaluated.
LogCritical(s) == [s EXCEPT !.criticalLog = @ + 1]

\* The fragments keep the reliable flag of the message they are split from.
RECURSIVE SplitLoopInheritsReliable(_, _, _, _, _, _, _)
SplitLoopInheritsReliable(s, p, h, internalQueue, maxFragmentSize, byteOffset, currentFragmentIndex) ==
    LET message == s.heap[p]
    IN IF byteOffset >= message.dataSize THEN s
       ELSE LET thisFragmentSize == Min(maxFragmentSize, message.dataSize - byteOffset)
                f == AllocateNewMessage(s)
                s1 == StartNewMessage(s, f, message.id,
                                      Slice(message.data, byteOffset, thisFragmentSize))
                s2 == [s1 EXCEPT
                         !.heap[f].contentID = message.contentID,
                         !.heap[f].inOrder = message.inOrder,
                         !.heap[f].reliable = message.reliable,
                         !.heap[f].messageNumber = s1.outboundMessageNumberCounter,
                         !.heap[f].reliableMessageNumber = message.reliableMessageNumber,
                         !.heap[f].priority = message.priority,
                         !.heap[f].sendCount = 0,
                         !.heap[f].transfer = h,
                         !.heap[f].fragmentIndex = currentFragmentIndex,
                         !.outboundMessageNumberCounter = @ + 1,
                         !.fragmentedSends[h].fragments = @ \cup {f}]
                s3 == IF internalQueue THEN InsertWithResize(s2, f)
                      ELSE IF AcceptQueueHasRoom(s2)
                      THEN [s2 EXCEPT !.outboundAcceptQueue = Append(@, f)]
                      ELSE LogCritical(s2)
            IN SplitLoopInheritsReliable(s3, p, h, internalQueue, maxFragmentSize,
                                         byteOffset + thisFragmentSize,
                                         currentFragmentIndex + 1)

RECURSIVE SplitLoop(_, _, _, _, _, _, _)
SplitLoop(s, p, h, internalQueue, maxFragmentSize, byteOffset, currentFragmentIndex) ==
    LET message == s.heap[p]
    IN IF byteOffset >= message.dataSize THEN s
       ELSE LET thisFragmentSize == Min(maxFragmentSize, message.dataSize - byteOffset)
                f == AllocateNewMessage(s)
                s1 == StartNewMessage(s, f, message.id,
                                      Slice(message.data, byteOffset, thisFragmentSize))
                s2 == [s1 EXCEPT
                         !.heap[f].contentID = message.contentID,
                         !.heap[f].inOrder = message.inOrder,
                         !.heap[f].reliable = TRUE,
                         !.heap[f].messageNumber = s1.outboundMessageNumberCounter,
                         !.heap[f].reliableMessageNumber = message.reliableMessageNumber,
                         !.heap[f].priority = message.priority,
                         !.heap[f].sendCount = 0,
                         !.heap[f].transfer = h,
                         !.heap[f].fragmentIndex = currentFragmentIndex,
                         !.outboundMessageNumberCounter = @ + 1,
                         !.fragmentedSends[h].fragments = @ \cup {f}]
                s3 == IF internalQueue THEN InsertWithResize(s2, f)
                      ELSE IF AcceptQueueHasRoom(s2)
                      THEN [s2 EXCEPT !.outboundAcceptQueue = Append(@, f)]
                      ELSE LogCritical(s2)
            IN SplitLoop(s3, p, h, internalQueue, maxFragmentSize,
                         byteOffset + thisFragmentSize, currentFragmentIndex + 1)

SplitAndQueueMessage(s, p, internalQueue, maxFragmentSize) ==
    LET message == s.heap[p]
        totalNumFragments == (message.dataSize + maxFragmentSize - 1) \div maxFragmentSize
        h == s.nextTransfer
        s1 == AllocateNewFragmentedTransfer(s)
        s2 == [s1 EXCEPT !.fragmentedSends[h].totalNumFragments = totalNumFragments]
        s3 == SplitLoop(s2, p, h, internalQueue, maxFragmentSize, 0, 0)
    IN FreeMessage(s3, p)

(***************************************************************************)
(* MessageConnection::EndAndQueueMessage.  numBytes = -1 keeps the size    *)
(* given to StartNewMessage.                                               *)
(***************************************************************************)
EndAndQueueMessage(s, p, numBytes, internalQueue) ==
    IF s.heap[p].obsolete \/ s.connectionState = "ConnectionClosed" \/ ~IsWriteOpen(s)
    THEN FreeMessage(s, p)
    ELSE LET s1 == IF numBytes # -1 THEN [s EXCEPT !.heap[p].dataSize = numBytes] ELSE s
             msg == s1.heap[p]
         IN IF msg.dataSize + sendHeaderUpperBound > MaxSendSize
            THEN SplitAndQueueMessage(s1, p, internalQueue,
                                      MaxSendSize \div 4 - sendHeaderUpperBound)
            ELSE LET s2 == [s1 EXCEPT
                              !.heap[p].messageNumber = s1.outboundMessageNumberCounter,
                              !.heap[p].reliableMessageNumber =
                                  IF msg.reliable
                                  THEN s1.outboundReliableMessageNumberCounter ELSE 0,
                              !.heap[p].sendCount = 0,
                              !.outboundMessageNumberCounter = @ + 1,
                              !.outboundReliableMessageNumberCounter =
                                  IF msg.reliable THEN @ + 1 ELSE @]
                 IN IF internalQueue THEN InsertWithResize(s2, p)
                    ELSE IF AcceptQueueHasRoom(s2)
                    THEN [s2 EXCEPT !.outboundAcceptQueue = Append(@, p)]
                    ELSE FreeMessage(IF msg.reliable THEN LogCritical(s2) ELSE s2, p)

(***************************************************************************)
(* MessageConnection::SendMessage, called by the application thread.       *)
(***************************************************************************)
SendMessageOp(s, id, reliable, inOrder, priority, contentID, data) ==
    LET p == AllocateNewMessage(s)
        s1 == StartNewMessage(s, p, id, data)
        s2 == [s1 EXCEPT !.heap[p].reliable = reliable,
                         !.heap[p].inOrder = inOrder,
                         !.heap[p].priority = priority,
                         !.heap[p].contentID = contentID]
    IN EndAndQueueMessage(s2, p, -1, FALSE)

(***************************************************************************)
(* MessageConnection::AcceptOutboundMessages, called by the worker thread. *)
(***************************************************************************)
RECURSIVE AcceptLoop(_, _)
AcceptLoop(s, left) ==
    IF s.outboundAcceptQueue = <<>> \/ left - 1 <= 0 THEN s
    ELSE LET p == Head(s.outboundAcceptQueue)
             s1 == [s EXCEPT !.outboundAcceptQueue = Tail(@)]
             s2 == InsertWithResize(s1, p)
         IN AcceptLoop(CheckAndSaveOutboundMessageWithContentID(s2, p), left - 1)

AcceptOutboundMessages(s) ==
    IF s.connectionState # "ConnectionOK" THEN s
    ELSE AcceptLoop(s, numMessagesToAcceptPerFrame)

(***************************************************************************)
(* Retransmission timeout estimation (RFC 2988) and the datagram rate.     *)
(* retransmissionTimeout, smoothedRTT and rttVariation are floats in the   *)
(* source; here they are integers in thousandths.  The rtt argument is the *)
(* measured round trip in the unit FreeOutboundPacketAckTrack passes.      *)
(***************************************************************************)
ClampRTO(v) == Min(maxRTOTimeoutValue, Max(minRTOTimeoutValue, v))

UpdateRTOCounterOnPacketAck(s, rtt) ==
    LET var == IF s.rttCleared THEN rtt \div 2
               ELSE (3 * s.rttVariation + Abs(s.smoothedRTT - rtt)) \div 4
        srtt == IF s.rttCleared THEN rtt
                ELSE (7 * s.smoothedRTT + rtt) \div 8
    IN [s EXCEPT !.rttCleared = FALSE,
                 !.rttVariation = var,
                 !.smoothedRTT = srtt,
                 !.retransmissionTimeout = ClampRTO(1000 + 2 * (srtt + var))]

UpdateRTOCounterOnPacketLoss(s) ==
    [s EXCEPT !.retransmissionTimeout = ClampRTO(s.smoothedRTT * 2),
              !.smoothedRTT = ClampRTO(s.smoothedRTT * 2),
              !.rttVariation = 0,
              !.numLossesLastFrame = @ + 1]

\* UDPMessageConnection::HandleFlowControl; numFrames is the number of whole
\* 10 ms frames since lastFrameTime.
HandleFlowControl(s, numFrames) ==
    IF numFrames <= 0 THEN s
    ELSE LET n == Min(numFrames, 100)
         IN IF s.numLossesLastFrame > 5
            THEN [s EXCEPT !.datagramSendRate =
                               Min(@, Max(1000, (s.lowestDatagramSendRateOnPacketLoss * 9) \div 10)),
                           !.numAcksLastFrame = 0,
                           !.numLossesLastFrame = 0]
            ELSE LET increment == Min((n * 5 * (50000 - s.datagramSendRate)) \div 100, 1000)
                     rate == Min(s.datagramSendRate + increment, 50000)
                 IN [s EXCEPT !.datagramSendRate = rate,
                              !.lowestDatagramSendRateOnPacketLoss = rate,
                              !.numAcksLastFrame = 0,
                              !.numLossesLastFrame = 0]

(***************************************************************************)
(* The outbound ack tracker, in send order.                                *)
(***************************************************************************)
\* A track's timeout is what the clock has to advance until it reads the
\* track's timeoutTick; at 0 the timeoutTick is not newer than now.
TimedOut(track) == track.timeout <= 0

\* The messages of the first timed out track are put back into the send
\* queue and the track is kept.
ProcessPacketTimeoutsKeepsTrack(s, expired) ==
    IF s.outboundPacketAckTrack = <<>> THEN s
    ELSE IF expired <= 0 /\ ~TimedOut(Head(s.outboundPacketAckTrack)) THEN s
    ELSE LET track == Head(s.outboundPacketAckTrack)
             s1 == [s EXCEPT !.lowestDatagramSendRateOnPacketLoss =
                                 Min(@, track.datagramSendRate)]
             s2 == UpdateRTOCounterOnPacketLoss(s1)
         IN InsertAllWithResize(s2, track.messages)

\* UDPMessageConnection::ProcessPacketTimeouts; expired is the number of
\* tracks at the front of the tracker that the clock reading of this call
\* finds timed out beyond those that have timed out already.
RECURSIVE ProcessPacketTimeouts(_, _)
ProcessPacketTimeouts(s, expired) ==
    IF s.outboundPacketAckTrack = <<>> THEN s
    ELSE IF expired <= 0 /\ ~TimedOut(Head(s.outboundPacketAckTrack)) THEN s
    ELSE LET track == Head(s.outboundPacketAckTrack)
             s1 == [s EXCEPT !.lowestDatagramSendRateOnPacketLoss =
                                 Min(@, track.datagramSendRate)]
             s2 == UpdateRTOCounterOnPacketLoss(s1)
             s3 == InsertAllWithResize(s2, track.messages)
             s4 == [s3 EXCEPT !.outboundPacketAckTrack = Tail(@)]
         IN ProcessPacketTimeouts(s4, expired - 1)

RECURSIVE FreeTrackMessages(_, _)
FreeTrackMessages(s, ps) ==
    IF ps = <<>> THEN s
    ELSE LET p == ps[1]
             s1 == IF s.heap[p].transfer # NoTransfer
                   THEN RemoveMessage(s, s.heap[p].transfer, p) ELSE s
         IN FreeTrackMessages(FreeMessage(s1, p), Tail(ps))

\* An ack for a packet id without a track counts as an ack of the frame.
FreeOutboundPacketAckTrackCounted(s, packetID, rtt) ==
    LET q == s.outboundPacketAckTrack
        hit == {i \in DOMAIN q : q[i].packetID = packetID}
    IN IF hit = {} THEN [s EXCEPT !.numAcksLastFrame = @ + 1]
       ELSE LET i == MinOf(hit)
                track == q[i]
                s1 == FreeTrackMessages(s, track.messages)
                s2 == IF track.sendCount <= 1
                      THEN [UpdateRTOCounterOnPacketAck(s1, rtt)
                               EXCEPT !.numAcksLastFrame = @ + 1]
                      ELSE s1
            IN [s2 EXCEPT !.outboundPacketAckTrack = RemoveAt(@, i)]

\* UDPMessageConnection::FreeOutboundPacketAckTrack; rtt is the time since
\* the track's sentTick.
FreeOutboundPacketAckTrack(s, packetID, rtt) ==
    LET q == s.outboundPacketAckTrack
        hit == {i \in DOMAIN q : q[i].packetID = packetID}
    IN IF hit = {} THEN s
       ELSE LET i == MinOf(hit)
                track == q[i]
                s1 == FreeTrackMessages(s, track.messages)
                s2 == IF track.sendCount <= 1
                      THEN [UpdateRTOCounterOnPacketAck(s1, rtt)
                               EXCEPT !.numAcksLastFrame = @ + 1]
                      ELSE s1
            IN [s2 EXCEPT !.outboundPacketAckTrack = RemoveAt(@, i)]

\* The u32 bitfield of a MsgIdPacketAck as its four bytes, lowest first.
SequenceBytes(bits) ==
    [k \in 1 .. 4 |->
        LET F[i \in 0 .. 8] ==
                IF i = 8 THEN 0
                ELSE (IF 8 * (k - 1) + i \in bits THEN 2 ^ i ELSE 0) + F[i + 1]
        IN F[0]]

\* (sequence & (1 << i)) != 0
SequenceBit(bytes, i) == (bytes[(i \div 8) + 1] \div (2 ^ (i % 8))) % 2 = 1

\* UDPMessageConnection::HandlePacketAckMessage.  The 7 payload bytes are
\* ctl = <<u8 low, u16 high, the four bytes of the u32 bitfield>>.
RECURSIVE FreeAcked(_, _, _, _)
FreeAcked(s, packetID, bits, rtt) ==
    IF bits = {} THEN s
    ELSE LET i == MinOf(bits)
         IN CHOOSE r \in {FreeAcked(s1, packetID, bits \ {i}, rtt) :
                             s1 \in {FreeOutboundPacketAckTrack(
                                         s, AddPacketID(packetID, 1 + i), rtt)}} : TRUE

\* The high part of the packet id is read as a u8.
HandlePacketAckMessageNarrow(s, ctl, numBytes, rtt) ==
    IF numBytes # 7 \/ Len(ctl) # 3 THEN s
    ELSE LET packetID == ctl[1] + (ctl[2] % 256) * 256
         IN FreeAcked(FreeOutboundPacketAckTrack(s, packetID, rtt),
                      packetID, {i \in 0 .. 31 : SequenceBit(ctl[3], i)}, rtt)

HandlePacketAckMessage(s, ctl, numBytes, rtt) ==
    IF numBytes # 7 \/ Len(ctl) # 3 THEN s
    ELSE LET packetID == ctl[1] + ctl[2] * 256
         IN FreeAcked(FreeOutboundPacketAckTrack(s, packetID, rtt),
                      packetID, {i \in 0 .. 31 : SequenceBit(ctl[3], i)}, rtt)

(***************************************************************************)
(* UDPMessageConnection::SendPacketAckMessage and PerformPacketAckSends.   *)
(***************************************************************************)
\* A message that acknowledges every id from packetID to packetID + 32,
\* pending or not.
AckedWithoutLookup(packetID, pending) ==
    {packetID} \cup {AddPacketID(packetID, i + 1) : i \in 0 .. 31}

\* The ids one ack message covers: the first pending id and those of the 32
\* ids after it that are pending.
AckedWith(packetID, pending) ==
    {packetID} \cup {id \in {AddPacketID(packetID, i + 1) : i \in 0 .. 31} :
                        id \in pending}

\* The messages SendPacketAckMessage allocates for a pending set.
RECURSIVE AckMessagesNeeded(_)
AckMessagesNeeded(pending) ==
    IF pending = {} THEN 0
    ELSE 1 + AckMessagesNeeded(pending \ AckedWith(MinOf(pending), pending))

RECURSIVE SendPacketAckMessage(_)
SendPacketAckMessage(s) ==
    IF s.inboundPacketAckTrack = {} THEN s
    ELSE LET packetID == MinOf(s.inboundPacketAckTrack)
             erased == AckedWith(packetID, s.inboundPacketAckTrack)
             sequence == {i \in 0 .. 31 : AddPacketID(packetID, i + 1) \in erased}
             s1 == [s EXCEPT !.inboundPacketAckTrack = @ \ erased,
                             !.ackAged = @ \ erased,
                             !.ackOverdue = @ \ erased]
             p == AllocateNewMessage(s1)
             s2 == StartNewMessage(s1, p, MsgIdPacketAck, Buffer(0, 7))
             s3 == [s2 EXCEPT !.heap[p].ctl =
                                 <<packetID % 256, (packetID \div 256) % 65536,
                                   SequenceBytes(sequence)>>,
                              !.heap[p].priority = cMaxPriority - 1]
         IN SendPacketAckMessage(EndAndQueueMessage(s3, p, 7, TRUE))

\* The entry the pending map begins with, the one with the smallest packet
\* id, was received at least maxAckDelay ago.
AckIsDue(s) ==
    /\ s.inboundPacketAckTrack # {}
    /\ MinOf(s.inboundPacketAckTrack) \in s.ackOverdue

\* ackDue: the entry with the smallest packet id is at least maxAckDelay old.
PerformPacketAckSends(s, ackDue) ==
    IF s.inboundPacketAckTrack = {} THEN s
    ELSE IF ~ackDue /\ Cardinality(s.inboundPacketAckTrack) < 33 THEN s
    ELSE SendPacketAckMessage(s)

(***************************************************************************)
(* The pacing of the datagrams.  ticksSinceDatagramSend is                 *)
(* Clock::TicksInBetween(now, lastDatagramSendTime), the only way the      *)
(* code reads lastDatagramSendTime: a tick of the clock adds one to it,    *)
(* adding n to lastDatagramSendTime takes n from it, and setting           *)
(* lastDatagramSendTime to now sets it to 0.  SendOutPacket advances       *)
(* lastDatagramSendTime only by a delay that has passed, so it is never    *)
(* ahead of the clock and the unsigned difference never wraps.             *)
(***************************************************************************)
TicksPerSec == 1000000

\* (tick_t)(Clock::TicksPerSec() / datagramSendRate); the rate is in thousandths.
DatagramSendTickDelay(s) == (TicksPerSec * 1000) \div s.datagramSendRate

TimeUntilCanSendPacket(s) == IF s.ticksSinceDatagramSend > 0 THEN 0 ELSE 1

CanSendOutNewDatagram(s) ==
    s.ticksSinceDatagramSend >= DatagramSendTickDelay(s)

\* lastDatagramSendTime is set to now whatever it was.
NewDatagramSentNow(s) == [s EXCEPT !.ticksSinceDatagramSend = 0]

NewDatagramSent(s) ==
    IF s.ticksSinceDatagramSend \div DatagramSendTickDelay(s) < 20
    THEN [s EXCEPT !.ticksSinceDatagramSend = @ - DatagramSendTickDelay(s)]
    ELSE [s EXCEPT !.ticksSinceDatagramSend = 0]

(***************************************************************************)
(* The datagram on the wire.  The three header bytes are b0 (packet id     *)
(* bits 0..5, reliable flag, in-order flag) and the u16 w1 (packet id bits *)
(* 6..21); base is the reliable-message base number.  A message is its     *)
(* two-byte header hdr, the fields the header announces and its content:   *)
(* the message id (when present) followed by the payload bytes.            *)
(***************************************************************************)
NoDatagram == [none |-> TRUE]

GetTotalDatagramPackedSize(s, msg) ==
    LET hasTransfer == msg.transfer # NoTransfer
        idLength == IF ~hasTransfer \/ msg.fragmentIndex = 0
                    THEN VLE8_16_32_Bytes(msg.id) ELSE 0
        headerLength == 2
        contentLength == msg.dataSize
        fragmentStartLength ==
            IF hasTransfer /\ msg.fragmentIndex = 0
            THEN VLE8_16_32_Bytes(s.fragmentedSends[msg.transfer].totalNumFragments)
            ELSE 0
        fragmentLength ==
            (IF hasTransfer THEN 1 ELSE 0)
            + (IF hasTransfer /\ msg.fragmentIndex # 0
               THEN VLE8_16_32_Bytes(msg.fragmentIndex) ELSE 0)
    IN idLength + headerLength + contentLength + fragmentStartLength + fragmentLength

\* The bytes SendOutPacket copies from msg->data: dataSize bytes, of which
\* those beyond the buffer are not the message's (source 0 - 1).
WireData(msg) ==
    IF msg.dataSize <= BytesOf(msg.data) THEN Slice(msg.data, 0, msg.dataSize)
    ELSE msg.data \o <<(<<0 - 1, 0, msg.dataSize - BytesOf(msg.data)>>)>>

\* The loop of SendOutPacket that fills the datagram from the send queue.
RECURSIVE PackLoop(_, _)
PackLoop(s, st) ==
    IF s.outboundQueue = <<>> THEN [s |-> s, st |-> st]
    ELSE LET p == Head(s.outboundQueue)
             msg == s.heap[p]
         IN IF msg.obsolete
            THEN PackLoop(FreeMessage([s EXCEPT !.outboundQueue = Tail(@)], p), st)
            ELSE IF /\ msg.transfer # NoTransfer
                    /\ s.fragmentedSends[msg.transfer].id = -1
                    /\ FreeTransferIDs(s) = {}
            THEN PackLoop([s EXCEPT !.outboundQueue = Tail(@)],
                          [st EXCEPT !.skipped = Append(@, p)])
            ELSE LET s1 == IF msg.transfer # NoTransfer
                              /\ s.fragmentedSends[msg.transfer].id = -1
                           THEN AllocateFragmentedTransferID(s, msg.transfer) ELSE s
                     totalMessageSize ==
                         GetTotalDatagramPackedSize(s1, msg)
                         + (IF msg.inOrder /\ ~st.inOrder
                            THEN cBytesForInOrderDeltaCounter ELSE 0)
                 IN IF st.size >= 1 /\ st.size + totalMessageSize >= MaxSendSize
                    THEN [s |-> s1, st |-> st]
                    ELSE PackLoop(
                           [s1 EXCEPT !.outboundQueue = Tail(@)],
                           [st EXCEPT
                              !.serialized = Append(@, p),
                              !.size = @ + totalMessageSize,
                              !.reliable = @ \/ msg.reliable,
                              !.smallest = IF msg.reliable
                                           THEN Min(@, msg.reliableMessageNumber) ELSE @,
                              !.inOrder = @ \/ msg.inOrder])

\* One message as SendOutPacket writes it.
WireMessage(s, msg, smallestReliableMessageNumber) ==
    LET hasTransfer == msg.transfer # NoTransfer
        hasId == ~hasTransfer \/ msg.fragmentIndex = 0
        encodedMsgIdLength == IF hasId THEN VLE8_16_32_Bytes(msg.id) ELSE 0
        messageContentSize == msg.dataSize + encodedMsgIdLength
        reliable == (IF msg.reliable THEN 1 ELSE 0) * 4096
        inOrder == (IF msg.inOrder THEN 1 ELSE 0) * 8192
        fragmentedTransfer == (IF hasTransfer THEN 1 ELSE 0) * 16384
        firstFragment == (IF hasTransfer /\ msg.fragmentIndex = 0 THEN 1 ELSE 0) * 32768
    IN [hdr |-> messageContentSize + reliable + inOrder + fragmentedTransfer + firstFragment,
        delta |-> IF msg.reliable
                  THEN msg.reliableMessageNumber - smallestReliableMessageNumber ELSE 0,
        numTotalFragments |-> IF firstFragment # 0
                              THEN s.fragmentedSends[msg.transfer].totalNumFragments ELSE 0,
        transferID |-> IF fragmentedTransfer # 0
                       THEN s.fragmentedSends[msg.transfer].id % 256 ELSE 0,
        fragmentIndex |-> IF firstFragment = 0 /\ fragmentedTransfer # 0
                          THEN msg.fragmentIndex ELSE 0,
        content |-> [hasId |-> hasId, id |-> IF hasId THEN msg.id ELSE 0,
                     data |-> WireData(msg), ctl |-> msg.ctl]]

RECURSIVE IncrementSendCounts(_, _)
IncrementSendCounts(s, ps) ==
    IF ps = <<>> THEN s
    ELSE IncrementSendCounts([s EXCEPT !.heap[ps[1]].sendCount = @ + 1], Tail(ps))

SelectSeq2(ps, s, rel) ==
    LET Test(p) == s.heap[p].reliable = rel IN SelectSeq(ps, Test)

(***************************************************************************)
(* UDPMessageConnection::SendOutPacket.  canSend is CanSendOutNewDatagram  *)
(* (and BeginSend handing out a buffer), success is what EndSend returns.  *)
(* The result is the connection after the call, the datagram handed to the *)
(* socket (NoDatagram if none) and the PacketSendResult.                   *)
(***************************************************************************)
\* The datagram written from the serialized messages.
WriteDatagram(s, st) ==
    [b0 |-> (s.datagramPacketIDCounter % 64) + (IF st.reliable THEN 64 ELSE 0)
            + (IF st.inOrder THEN 128 ELSE 0),
     w1 |-> (s.datagramPacketIDCounter \div 64) % 65536,
     base |-> IF st.reliable THEN st.smallest ELSE 0,
     msgs |-> [i \in DOMAIN st.serialized |->
                  WireMessage(s, s.heap[st.serialized[i]], st.smallest)]]

\* Every datagram gets an ack track, a reliable one or not.
DatagramSentAlwaysTracked(s, st, packetID) ==
    LET ack == [packetID |-> packetID, sendCount |-> 1,
                timeout |-> s.retransmissionTimeout,
                datagramSendRate |-> s.datagramSendRate,
                messages |-> SelectSeq2(st.serialized, s, TRUE)]
    IN [FreeMessages(NewDatagramSent(s), SelectSeq2(st.serialized, s, FALSE))
        EXCEPT !.lastSentInOrderPacketID = packetID,
               !.datagramPacketIDCounter = AddPacketID(packetID, 1),
               !.outboundPacketAckTrack = Append(@, ack)]

\* EndSend succeeded: the reliable messages wait in a new ack track, the
\* unreliable ones are freed; sending a MsgIdDisconnectAck closes the connection.
DatagramSent(s, st, packetID) ==
    LET ack == [packetID |-> packetID, sendCount |-> 1,
                timeout |-> s.retransmissionTimeout,
                datagramSendRate |-> s.datagramSendRate,
                messages |-> SelectSeq2(st.serialized, s, TRUE)]
        sentDisconnectAckMessage ==
            \E i \in DOMAIN st.serialized :
                s.heap[st.serialized[i]].id = MsgIdDisconnectAck
    IN [(IF st.reliable
         THEN FreeMessages(NewDatagramSent(s), SelectSeq2(st.serialized, s, FALSE))
         ELSE FreeMessages(NewDatagramSent(s), st.serialized))
        EXCEPT !.lastSentInOrderPacketID = packetID,
               !.datagramPacketIDCounter = AddPacketID(packetID, 1),
               !.outboundPacketAckTrack =
                   IF st.reliable THEN Append(@, ack) ELSE @,
               !.connectionState =
                   IF sentDisconnectAckMessage THEN "ConnectionClosed" ELSE @]

\* The send counts are incremented before EndSend is seen to have failed.
SendPackedCounted(s, st, success) ==
    IF ~success
    THEN [s |-> InsertAllWithResize(IncrementSendCounts(s, st.serialized),
                                    st.serialized),
          dg |-> NoDatagram, result |-> "PacketSendSocketFull"]
    ELSE [s |-> DatagramSent(IncrementSendCounts(s, st.serialized), st,
                             s.datagramPacketIDCounter),
          dg |-> WriteDatagram(s, st),
          result |-> "PacketSendOK"]

\* The part of SendOutPacket after the packing loop; s holds the skipped
\* messages again.
SendPacked(s, st, success) ==
    IF ~success
    THEN [s |-> InsertAllWithResize(s, st.serialized), dg |-> NoDatagram,
          result |-> "PacketSendSocketFull"]
    ELSE [s |-> DatagramSent(IncrementSendCounts(s, st.serialized), st,
                             s.datagramPacketIDCounter),
          dg |-> WriteDatagram(s, st),
          result |-> "PacketSendOK"]

\* The skipped messages are not put back into the send queue.
ForgetSkipped(packed, success) == SendPacked(packed.s, packed.st, success)

ReturnSkipped(packed, success) ==
    SendPacked(InsertAllWithResize(packed.s, packed.st.skipped), packed.st, success)

SendOutPacket(s, canSend, success) ==
    IF ~s.socketWriteOpen
    THEN [s |-> s, dg |-> NoDatagram, result |-> "PacketSendSocketClosed"]
    ELSE IF s.bOutboundSendsPaused \/ s.outboundQueue = <<>>
    THEN [s |-> s, dg |-> NoDatagram, result |-> "PacketSendNoMessages"]
    ELSE IF ~canSend
    THEN [s |-> s, dg |-> NoDatagram, result |-> "PacketSendThrottled"]
    ELSE ReturnSkipped(
             PackLoop(s, [serialized |-> <<>>, skipped |-> <<>>, size |-> 3,
                          reliable |-> FALSE, inOrder |-> FALSE,
                          smallest |-> unsetReliableMessageNumber]),
             success)

(***************************************************************************)
(* FragmentedReceiveManager: the reassembly buffers, keyed by transfer id. *)
(* A buffer is created by the fragment-start; later fragments of a known   *)
(* transfer are added to it; a fragment of an unknown transfer, or one     *)
(* whose index is already present, is dropped.                             *)
(***************************************************************************)
NewFragmentStartReceived(s, transferID, numTotalFragments, content) ==
    [s EXCEPT !.fragmentedReceives =
        [k \in (DOMAIN @) \cup {transferID} |->
            IF k = transferID
            THEN [numTotalFragments |-> numTotalFragments,
                  fragments |-> (0 :> content)]
            ELSE @[k]]]

FragmentAccepted(s, transferID, fragmentNumber) ==
    /\ transferID \in DOMAIN s.fragmentedReceives
    /\ fragmentNumber \notin DOMAIN s.fragmentedReceives[transferID].fragments

NewFragmentReceived(s, transferID, fragmentNumber, content) ==
    IF ~FragmentAccepted(s, transferID, fragmentNumber) THEN s
    ELSE [s EXCEPT !.fragmentedReceives[transferID].fragments =
                       [k \in (DOMAIN @) \cup {fragmentNumber} |->
                           IF k = fragmentNumber THEN content ELSE @[k]]]

\* The value NewFragmentReceived returns: the transfer now holds all fragments.
MessageReady(s, transferID, fragmentNumber) ==
    /\ FragmentAccepted(s, transferID, fragmentNumber)
    /\ Cardinality(DOMAIN s.fragmentedReceives[transferID].fragments) + 1
           >= s.fragmentedReceives[transferID].numTotalFragments

RECURSIVE ConcatFragments(_, _)
ConcatFragments(frags, left) ==
    IF left = {} THEN <<>>
    ELSE LET i == MinOf(left)
         IN frags[i].data \o ConcatFragments(frags, left \ {i})

AssembleMessage(s, transferID) ==
    LET frags == s.fragmentedReceives[transferID].fragments
        first == frags[MinOf(DOMAIN frags)]
    IN [hasId |-> first.hasId, id |-> first.id,
        data |-> ConcatFragments(frags, DOMAIN frags), ctl |-> <<>>]

FreeReceivedTransfer(s, transferID) ==
    [s EXCEPT !.fragmentedReceives = [k \in (DOMAIN @) \ {transferID} |-> @[k]]]

(***************************************************************************)
(* Received packet ids: the ids of the last ReceivedPacketIDsCapacity      *)
(* datagrams parsed to their end.  Below that capacity nothing is evicted, *)
(* and the ids are a set.                                                  *)
(***************************************************************************)
HaveReceivedPacketID(s, packetID) == packetID \in s.receivedPacketIDs

AddReceivedPacketIDStats(s, packetID) ==
    IF Cardinality(s.receivedPacketIDs) < ReceivedPacketIDsCapacity
    THEN [s EXCEPT !.receivedPacketIDs = @ \cup {packetID}]
    ELSE s

(***************************************************************************)
(* MessageConnection::CheckAndSaveContentIDStamp.  stampOld: the stored    *)
(* stamp is more than 5 s old.                                             *)
(***************************************************************************)
\* A message of the key is accepted whatever its packet id.
StampAlwaysAccepted(s, messageID, contentID, packetID, stampOld) == TRUE

\* The stamp stored for the key is more than 5 s old.
StampIsOld(s, messageID, contentID, clk) ==
    clk.stampOld \/ <<messageID, contentID>> \in s.staleStamps

StampAccepted(s, messageID, contentID, packetID, stampOld) ==
    LET key == <<messageID, contentID>>
    IN \/ key \notin DOMAIN s.inboundContentIDStamps
       \/ PacketIDIsNewerThan(packetID, s.inboundContentIDStamps[key])
       \/ stampOld

CheckAndSaveContentIDStamp(s, messageID, contentID, packetID, stampOld) ==
    LET key == <<messageID, contentID>>
    IN IF StampAccepted(s, messageID, contentID, packetID, stampOld)
       THEN [s EXCEPT !.inboundContentIDStamps =
                         [k \in (DOMAIN @) \cup {key} |->
                             IF k = key THEN packetID ELSE @[k]],
                      !.staleStamps = @ \ {key}]
       ELSE s

(***************************************************************************)
(* The disconnect handshake (UDPMessageConnection).                        *)
(* EndAndQueueMessage(msg, isInternal) passes the flag as numBytes; the    *)
(* message goes to the accept queue.                                       *)
(***************************************************************************)
SendDisconnectMessage(s, isInternal) ==
    LET p == AllocateNewMessage(s)
        s1 == StartNewMessage(s, p, MsgIdDisconnect, <<>>)
        s2 == [s1 EXCEPT !.heap[p].priority = cMaxPriority,
                         !.heap[p].reliable = TRUE]
    IN EndAndQueueMessage(s2, p, IF isInternal THEN 1 ELSE 0, FALSE)

SendDisconnectAckMessage(s) ==
    LET p == AllocateNewMessage(s)
        s1 == StartNewMessage(s, p, MsgIdDisconnectAck, <<>>)
        s2 == [s1 EXCEPT !.heap[p].priority = cMaxPriority,
                         !.heap[p].reliable = FALSE]
    IN EndAndQueueMessage(s2, p, 1, FALSE)

PerformDisconnection(s) == SendDisconnectMessage(s, FALSE)

HandleDisconnectMessage(s) ==
    IF s.connectionState # "ConnectionClosed"
    THEN SendDisconnectAckMessage(
             [s EXCEPT !.connectionState = "ConnectionDisconnecting"])
    ELSE s

\* A connection that takes no notice of a MsgIdDisconnectAck.
IgnoreDisconnectAck(s) == s

HandleDisconnectAckMessage(s) ==
    [s EXCEPT !.connectionState = "ConnectionClosed"]

(***************************************************************************)
(* Ping.                                                                   *)
(***************************************************************************)
HandlePingRequestMessage(s, content) ==
    IF BytesOf(content.data) # 1 THEN s
    ELSE LET p == AllocateNewMessage(s)
             s1 == StartNewMessage(s, p, MsgIdPingReply, Buffer(0, 1))
             s2 == [s1 EXCEPT !.heap[p].ctl = content.ctl,
                              !.heap[p].priority = cMaxPriority - 1]
         IN EndAndQueueMessage(s2, p, 1, TRUE)

(***************************************************************************)
(* The state.                                                              *)
(*   conn       the connection objects                                     *)
(*   net        net[c]: the datagrams in flight towards connection c       *)
(*   sent       sent[c]: every datagram connection c handed to its socket  *)
(*   submitted  the SendMessage calls made so far; call k sends buffer k   *)
(*   appPc      where the application thread of c stands inside Disconnect *)
(*   faults     what the network and the clock have done so far            *)
(***************************************************************************)
VARIABLES conn, net, sent, submitted, appPc, faults

vars == <<conn, net, sent, submitted, appPc, faults>>

\* The application's handler derives the content id of a message from its
\* payload: buffer k carries the content id given to SendMessage call k.
ComputeContentID(messageID, content) ==
    IF content.data # <<>> /\ content.data[1][1] \in DOMAIN submitted
    THEN submitted[content.data[1][1]].contentID
    ELSE 0

(***************************************************************************)
(* UDPMessageConnection::HandleMessage.  TRUE: the message is consumed.    *)
(***************************************************************************)
ChildHandlesMessage(s, packetID, content, clk) ==
    IF content.id \in {MsgIdPingRequest, MsgIdPingReply} THEN FALSE
    ELSE IF content.id \in {MsgIdFlowControlRequest, MsgIdPacketAck,
                            MsgIdDisconnect, MsgIdDisconnectAck} THEN TRUE
    ELSE LET contentID == ComputeContentID(content.id, content)
         IN contentID # 0
            /\ ~StampAccepted(s, content.id, contentID, packetID,
                              StampIsOld(s, content.id, contentID, clk))

HandleMessage(s, packetID, content, clk) ==
    IF content.id = MsgIdPacketAck
    THEN HandlePacketAckMessage(s, content.ctl, BytesOf(content.data), clk.rtt)
    ELSE IF content.id = MsgIdDisconnect THEN HandleDisconnectMessage(s)
    ELSE IF content.id = MsgIdDisconnectAck THEN HandleDisconnectAckMessage(s)
    ELSE IF content.id \in {MsgIdPingRequest, MsgIdPingReply, MsgIdFlowControlRequest}
    THEN s
    ELSE LET contentID == ComputeContentID(content.id, content)
         IN IF contentID # 0
            THEN CheckAndSaveContentIDStamp(s, content.id, contentID, packetID,
                                            StampIsOld(s, content.id, contentID, clk))
            ELSE s

(***************************************************************************)
(* MessageConnection::HandleInboundMessage.  handled is the log of its     *)
(* calls.                                                                  *)
(***************************************************************************)
\* inboundMessageQueue.Size().
InboundQueueSize(s) == s.inboundQueueBacklog + Len(s.inboundMessageQueue)

\* The part of HandleInboundMessage after the virtual HandleMessage call.
HandleUnconsumed(s, content) ==
    IF content.id = MsgIdPingRequest THEN HandlePingRequestMessage(s, content)
    ELSE IF content.id = MsgIdPingReply THEN s
    ELSE IF InboundQueueSize(s) < InboundQueueCapacity
    THEN [s EXCEPT !.inboundMessageQueue =
                       Append(@, [id |-> content.id,
                                  data |-> Normalize(content.data)])]
    ELSE s

\* handled: the calls of HandleInboundMessage that carried a message of the
\* application (not one of the protocol's own message ids).
InternalMessageIDs ==
    {MsgIdPingRequest, MsgIdPingReply, MsgIdFlowControlRequest, MsgIdPacketAck,
     MsgIdDisconnect, MsgIdDisconnectAck}

LogHandled(s, packetID, content) ==
    IF content.id \in InternalMessageIDs THEN s
    ELSE [s EXCEPT !.handled =
             Append(@, [packetID |-> packetID, id |-> content.id,
                        data |-> Normalize(content.data)])]

HandleInboundMessage(s, packetID, content, clk) ==
    IF ~content.hasId THEN s
    ELSE IF ChildHandlesMessage(s, packetID, content, clk)
    THEN HandleMessage(LogHandled(s, packetID, content), packetID, content, clk)
    ELSE HandleUnconsumed(
             HandleMessage(LogHandled(s, packetID, content), packetID, content, clk),
             content)

(***************************************************************************)
(* UDPMessageConnection::ExtractMessages.                                  *)
(***************************************************************************)
\* A receiver that keeps no record of the reliable message numbers it saw.
NoReliableRecord(s, messageReliable, reliableMessageNumber) == FALSE

\* The received-reliable-set lookup: a reliable message whose number is in
\* the set is a duplicate.
DuplicateMessage(s, messageReliable, reliableMessageNumber) ==
    messageReliable /\ reliableMessageNumber \in s.receivedReliableMessages

\* A fragment other than the first: it joins its transfer, and the message
\* is handled and the transfer released once all fragments are there.
FragmentReceived(s, packetID, transferID, fragmentNumber, content, clk) ==
    IF MessageReady(s, transferID, fragmentNumber)
    THEN FreeReceivedTransfer(
             HandleInboundMessage(
                 NewFragmentReceived(s, transferID, fragmentNumber, content),
                 packetID,
                 AssembleMessage(
                     NewFragmentReceived(s, transferID, fragmentNumber, content),
                     transferID),
                 clk),
             transferID)
    ELSE NewFragmentReceived(s, transferID, fragmentNumber, content)

\* What ExtractMessages does with one parsed message m; s already holds the
\* message's reliable number in receivedReliableMessages.
DispatchMessage(s, m, packetID, duplicateMessage, clk) ==
    IF (m.hdr \div 32768) % 2 = 1
    THEN IF ~duplicateMessage
         THEN NewFragmentStartReceived(s, m.transferID, m.numTotalFragments, m.content)
         ELSE s
    ELSE IF (m.hdr \div 16384) % 2 = 1
    THEN FragmentReceived(s, packetID, m.transferID, m.fragmentIndex, m.content, clk)
    ELSE IF ~duplicateMessage
    THEN HandleInboundMessage(s, packetID, m.content, clk)
    ELSE s

\* The framing of message m is malformed: parsing stops.
Malformed(m) ==
    LET contentLength == m.hdr % 2048
        bytesLeft == BytesOf(m.content.data)
                     + (IF m.content.hasId THEN VLE8_16_32_Bytes(m.content.id) ELSE 0)
    IN \/ contentLength = 0
       \/ bytesLeft < contentLength
       \/ (m.hdr \div 32768) % 2 = 1 /\ m.numTotalFragments <= 1

MessageReliable(m) == (m.hdr \div 4096) % 2 = 1

RecordReliableMessage(s, m, reliableMessageIndexBase) ==
    IF MessageReliable(m)
    THEN [s EXCEPT !.receivedReliableMessages =
                       @ \cup {reliableMessageIndexBase + m.delta}]
    ELSE s

\* The message loop from message i on; ok = FALSE: parsing was aborted by
\* malformed framing.  The messages lo..hi are taken in order, the first
\* half before the second, which keeps the evaluation shallow for a
\* datagram of many messages.
ExtractLoop(s, msgs, packetID, reliableMessageIndexBase, i, clk) ==
    LET One(s0, k) ==
            IF Malformed(msgs[k])
            THEN [s |-> RecordReliableMessage(s0, msgs[k], reliableMessageIndexBase),
                  ok |-> FALSE]
            ELSE [s |-> DispatchMessage(
                            RecordReliableMessage(s0, msgs[k], reliableMessageIndexBase),
                            msgs[k], packetID,
                            DuplicateMessage(s0, MessageReliable(msgs[k]),
                                             reliableMessageIndexBase + msgs[k].delta),
                            clk),
                  ok |-> TRUE]
        RECURSIVE Range_(_, _, _)
        Range_(s0, lo, hi) ==
            IF lo > hi THEN [s |-> s0, ok |-> TRUE]
            ELSE IF lo = hi THEN One(s0, lo)
            ELSE CHOOSE r \in
                     {IF r1.ok THEN Range_(r1.s, (lo + hi) \div 2 + 1, hi) ELSE r1 :
                         r1 \in {Range_(s0, lo, (lo + hi) \div 2)}} : TRUE
    IN Range_(s, i, Len(msgs))

\* The end of ExtractMessages: the packet id is stored if parsing completed.
FinishExtract(r, packetID) ==
    IF r.ok THEN AddReceivedPacketIDStats(r.s, packetID) ELSE r.s

RecordPacketForAck(s, packetReliable, packetID) ==
    IF packetReliable
    THEN [s EXCEPT !.inboundPacketAckTrack = @ \cup {packetID},
                   !.ackAged = @ \ {packetID},
                   !.ackOverdue = @ \ {packetID}]
    ELSE s

\* A receiver that parses every datagram, its packet id seen before or not.
ExtractEveryPacket(s, dg, packetID, packetReliable, clk) ==
    FinishExtract(
        ExtractLoop(s, dg.msgs, packetID,
                    IF packetReliable THEN dg.base ELSE 0, 1, clk),
        packetID)

ExtractPacket(s, dg, packetID, packetReliable, clk) ==
    IF HaveReceivedPacketID(s, packetID) THEN s
    ELSE FinishExtract(
             ExtractLoop(s, dg.msgs, packetID,
                         IF packetReliable THEN dg.base ELSE 0, 1, clk),
             packetID)

\* lastHeardTime = Clock::Tick(): the peer is no longer silent.
HeardFromPeer(s) == [s EXCEPT !.silent = FALSE]

ExtractMessages(s, dg, clk) ==
    IF InboundQueueCapacity - InboundQueueSize(s) < MinInboundCapacityLeft
    THEN s
    ELSE ExtractPacket(
             RecordPacketForAck(HeardFromPeer(s), (dg.b0 \div 64) % 2 = 1,
                                dg.w1 * 64 + (dg.b0 % 64)),
             dg, dg.w1 * 64 + (dg.b0 % 64), (dg.b0 \div 64) % 2 = 1, clk)

\* UDPMessageConnection::ReadSocket for one datagram waiting in the socket.
Established(s) ==
    IF s.connectionState = "ConnectionPending"
    THEN [s EXCEPT !.connectionState = "ConnectionOK"] ELSE s

ReadSocketOp(s, dg, clk) ==
    IF ~s.socketReadOpen THEN s
    ELSE Established(ExtractMessages(s, dg, clk))

(***************************************************************************)
(* MessageConnection: connection state changes from the socket and the     *)
(* liveness timer.                                                         *)
(***************************************************************************)
IsReadOpen(s) ==
    \/ InboundQueueSize(s) > 0
    \/ /\ s.connectionState \notin {"ConnectionPeerClosed", "ConnectionClosed"}
       /\ s.socketReadOpen

SetPeerClosed(s) ==
    IF s.connectionState = "ConnectionPending"
    THEN [s EXCEPT !.connectionState = "ConnectionClosed"]
    ELSE IF s.connectionState = "ConnectionOK"
    THEN [s EXCEPT !.connectionState = "ConnectionPeerClosed"]
    ELSE IF s.connectionState = "ConnectionDisconnecting"
    THEN [s EXCEPT !.connectionState = "ConnectionClosed"]
    ELSE s

\* lastHeardExpired: LastHeardTime() exceeds connectionLostTimeout.
DetectConnectionTimeOut(s, lastHeardExpired) ==
    IF s.connectionState = "ConnectionClosed" THEN s
    ELSE IF lastHeardExpired THEN [s EXCEPT !.connectionState = "ConnectionClosed"]
    ELSE s

SendPingRequestMessage(s) ==
    LET pingID == (s.lastPingID + 1) % 256
        p == AllocateNewMessage(s)
        s1 == StartNewMessage([s EXCEPT !.lastPingID = pingID], p,
                              MsgIdPingRequest, Buffer(0, 1))
        s2 == [s1 EXCEPT !.heap[p].ctl = <<pingID>>,
                         !.heap[p].priority = cMaxPriority - 2]
    IN EndAndQueueMessage(s2, p, 1, TRUE)

\* The socket state propagation at the head of Disconnect and Close.
PropagateSocketState(s) ==
    LET s1 == IF ~s.socketReadOpen /\ ~s.socketWriteOpen
              THEN [s EXCEPT !.connectionState = "ConnectionClosed"] ELSE s
        s2 == IF ~s1.socketReadOpen /\ s1.connectionState # "ConnectionClosed"
              THEN [s1 EXCEPT !.connectionState = "ConnectionPeerClosed"] ELSE s1
    IN IF ~s2.socketWriteOpen /\ s2.connectionState # "ConnectionClosed"
       THEN [s2 EXCEPT !.connectionState = "ConnectionDisconnecting"] ELSE s2

\* MessageConnection::FreeMessageData.
FreeMessageData(s) ==
    [s EXCEPT !.outboundAcceptQueue = <<>>,
              !.acceptQueueBacklog = 0,
              !.inboundMessageQueue = <<>>,
              !.inboundQueueBacklog = 0,
              !.outboundQueue = <<>>,
              !.inboundContentIDStamps = <<>>,
              !.outboundContentIDMessages = <<>>,
              !.fragmentedSends = <<>>,
              !.fragmentedReceives = <<>>]

\* MessageConnection::Close(0).
Close(s) ==
    FreeMessageData([PropagateSocketState(s) EXCEPT
                        !.connectionState = "ConnectionClosed"])

(***************************************************************************)
(* MessageConnection::UpdateConnection with UDPMessageConnection::         *)
(* DoUpdateConnection, called by the worker.  The record in holds what the *)
(* clock decides: which timers have gone off, how many tracks have timed   *)
(* out, how many frames have passed, whether the oldest pending ack is due *)
(* and whether the peer has been silent for connectionLostTimeout.         *)
(***************************************************************************)
\* One statement after another: F applied to the value v has.
Then(v, F(_)) == CHOOSE r \in {F(x) : x \in {v}} : TRUE

DoUpdateConnection(s, in) ==
    IF ~in.udpDue THEN s
    ELSE Then(ProcessPacketTimeouts(s, in.expired), LAMBDA s1 :
         Then(HandleFlowControl(s1, in.numFrames), LAMBDA s2 :
              PerformPacketAckSends(s2, in.ackDue)))

\* The ping timer: a ping request is sent and the liveness timeout checked.
PingAndDetectTimeout(s, in) ==
    IF s.connectionState = "ConnectionOK" /\ in.pingDue
    THEN DetectConnectionTimeOut(
             IF ~s.bOutboundSendsPaused THEN SendPingRequestMessage(s) ELSE s,
             in.lastHeardExpired)
    ELSE s

\* The statistics timer: a socket closed for reading closes the connection.
DetectPeerClosed(s, in) ==
    IF in.statsDue /\ ~s.socketReadOpen /\ IsReadOpen(s)
    THEN SetPeerClosed(s) ELSE s

UpdateConnectionOp(s, in) ==
    Then(AcceptOutboundMessages(s), LAMBDA s1 :
    Then(PingAndDetectTimeout(s1, in), LAMBDA s2 :
    Then(DetectPeerClosed(s2, in), LAMBDA s3 :
         DoUpdateConnection(s3, in))))

(***************************************************************************)
(* The state after construction and Initialize, the connection            *)
(* established.  acceptQueueBacklog counts the messages that wait in       *)
(* outboundAcceptQueue in front of those listed there,                     *)
(* inboundQueueBacklog the messages the application has not taken from     *)
(* inboundMessageQueue in front of those listed there, socketFull that the *)
(* socket takes no datagram (EndSend fails), criticalLog the               *)
(* "Critical" log lines with their assert(false).                          *)
(* Four fields stand for ticks compared with the clock:                    *)
(* silent (lastHeardTime is more than connectionLostTimeout ago),          *)
(* staleStamps (the keys of inboundContentIDStamps stored more than 5 s    *)
(* ago), ackAged                                                           *)
(* (the pending ack entries whose sentTick is at least half of maxAckDelay *)
(* ago) and ackOverdue (those whose sentTick is at least maxAckDelay ago). *)
(***************************************************************************)
InitConnection(startingState) ==
    [connectionState |-> startingState,
     socketReadOpen |-> TRUE,
     socketWriteOpen |-> TRUE,
     bOutboundSendsPaused |-> FALSE,
     heap |-> [p \in Ptr |-> FreshMessage],
     freePtrs |-> Ptr,
     outboundAcceptQueue |-> <<>>,
     outboundQueue |-> <<>>,
     outboundContentIDMessages |-> <<>>,
     inboundContentIDStamps |-> <<>>,
     outboundMessageNumberCounter |-> 0,
     outboundReliableMessageNumberCounter |-> 0,
     datagramPacketIDCounter |-> 0,
     lastSentInOrderPacketID |-> 0,
     outboundPacketAckTrack |-> <<>>,
     inboundPacketAckTrack |-> {},
     receivedPacketIDs |-> {},
     receivedReliableMessages |-> {},
     fragmentedSends |-> <<>>,
     nextTransfer |-> 1,
     fragmentedReceives |-> <<>>,
     inboundMessageQueue |-> <<>>,
     handled |-> <<>>,
     received |-> <<>>,
     lastPingID |-> 0,
     rttCleared |-> TRUE,
     retransmissionTimeout |-> initialRetransmissionTimeout,
     smoothedRTT |-> initialRetransmissionTimeout,
     rttVariation |-> 0,
     datagramSendRate |-> initialDatagramSendRate,
     lowestDatagramSendRateOnPacketLoss |-> initialDatagramSendRate,
     numAcksLastFrame |-> 0,
     numLossesLastFrame |-> 0,
     acceptQueueBacklog |-> 0,
     inboundQueueBacklog |-> 0,
     ticksSinceDatagramSend |-> 0,
     socketFull |-> FALSE,
     criticalLog |-> 0,
     silent |-> FALSE,
     staleStamps |-> {},
     ackAged |-> {},
     ackOverdue |-> {}]

\* Nothing has been lost, duplicated, timed out, injected, paused or cut
\* yet, and no send has failed.
NoFaults ==
    [loss |-> 0, dup |-> 0, timeouts |-> 0, inject |-> 0, pauses |-> 0, cuts |-> 0,
     sendFails |-> 0]

Init ==
    /\ conn = [c \in Conn |-> InitConnection("ConnectionOK")]
    /\ net = [c \in Conn |-> {}]
    /\ sent = [c \in Conn |-> {}]
    /\ submitted = <<>>
    /\ appPc = [c \in Conn |-> "idle"]
    /\ faults = NoFaults

(***************************************************************************)
(* The application thread.                                                 *)
(***************************************************************************)
\* What the application passes to SendMessage.  A large payload exceeds what
\* one datagram carries and is split by EndAndQueueMessage.
AppMessageID == 10
AppPriority == 100
AppContentID == 42
SmallSize == 4
LargeSize == MaxSendSize

NumFragments(size) ==
    LET maxFragmentSize == MaxSendSize \div 4 - sendHeaderUpperBound
    IN IF size + sendHeaderUpperBound > MaxSendSize
       THEN (size + maxFragmentSize - 1) \div maxFragmentSize ELSE 0

SmallMenu ==
    [reliable : BOOLEAN, contentID : {0}, size : {SmallSize}]
ReliableMenu ==
    [reliable : {TRUE}, contentID : {0}, size : {SmallSize}]
ContentMenu ==
    [reliable : BOOLEAN, contentID : {AppContentID}, size : {SmallSize}]
LargeMenu ==
    [reliable : {TRUE}, contentID : {0}, size : {LargeSize, SmallSize}]

\* What an unassigned number field of a pool object may hold.
UninitValues == {0, 1}

\* The k-th SendMessage call of the application sends buffer k.
AppSendMessage(c, Menu, Limit) ==
    /\ appPc[c] = "idle"
    /\ Len(submitted) < Limit
    /\ \E m \in Menu, g \in UninitValues :
          /\ Cardinality(conn[c].freePtrs) >= 1 + NumFragments(m.size)
          /\ conn' = [conn EXCEPT ![c] =
                         SendMessageOp(ReadsAs(@, AllocateNewMessage(@), g),
                                       AppMessageID, m.reliable, m.reliable,
                                       AppPriority, m.contentID,
                                       Buffer(Len(submitted) + 1, m.size))]
          /\ submitted' = Append(submitted,
                                 [reliable |-> m.reliable, contentID |-> m.contentID,
                                  size |-> m.size,
                                  state |-> conn[c].connectionState,
                                  pause |-> IF conn[c].bOutboundSendsPaused
                                            THEN faults.pauses ELSE 0])
    /\ UNCHANGED <<net, sent, appPc, faults>>

(***************************************************************************)
(* SendMessage as the two threads see it.  EndAndQueueMessage runs on the  *)
(* application thread without a lock; its                                  *)
(* msg->messageNumber = outboundMessageNumberCounter++ is a load of the    *)
(* counter followed by a store of the incremented value, and the worker    *)
(* thread may run between the two.                                         *)
(***************************************************************************)
\* The message the application thread of c is building.
MessageInHand(s) ==
    CHOOSE p \in Ptr \ s.freePtrs :
        s.heap[p].data = Buffer(Len(submitted), submitted[Len(submitted)].size)

\* SendMessage up to the load of outboundMessageNumberCounter.
SendMessageBegin(c, Menu, Limit) ==
    /\ appPc[c] = "idle"
    /\ Len(submitted) < Limit
    /\ \E m \in Menu, g \in UninitValues :
          /\ m.size + sendHeaderUpperBound <= MaxSendSize
          /\ Cardinality(conn[c].freePtrs) >= 1
          /\ \E s0 \in {ReadsAs(conn[c], AllocateNewMessage(conn[c]), g)} :
             \E p \in {AllocateNewMessage(s0)} :
             \E s1 \in {StartNewMessage(s0, p, AppMessageID,
                                        Buffer(Len(submitted) + 1, m.size))} :
             \E s2 \in {[s1 EXCEPT !.heap[p].reliable = m.reliable,
                                    !.heap[p].inOrder = m.reliable,
                                    !.heap[p].priority = AppPriority,
                                    !.heap[p].contentID = m.contentID]} :
                IF \/ s2.heap[p].obsolete
                   \/ s2.connectionState = "ConnectionClosed"
                   \/ ~IsWriteOpen(s2)
                THEN /\ conn' = [conn EXCEPT ![c] = FreeMessage(s2, p)]
                     /\ appPc' = appPc
                ELSE /\ conn' = [conn EXCEPT ![c] =
                                    [s2 EXCEPT !.heap[p].messageNumber =
                                                   s2.outboundMessageNumberCounter]]
                     /\ appPc' = [appPc EXCEPT ![c] = "storeCounter"]
          /\ submitted' = Append(submitted,
                                 [reliable |-> m.reliable, contentID |-> m.contentID,
                                  size |-> m.size,
                                  state |-> conn[c].connectionState,
                                  pause |-> IF conn[c].bOutboundSendsPaused
                                            THEN faults.pauses ELSE 0])
    /\ UNCHANGED <<net, sent, faults>>

\* The store of the incremented counter and the rest of EndAndQueueMessage.
SendMessageEnd(c) ==
    /\ appPc[c] = "storeCounter"
    /\ \E p \in {MessageInHand(conn[c])} :
       \E s2 \in {[conn[c] EXCEPT
                      !.outboundMessageNumberCounter = conn[c].heap[p].messageNumber + 1,
                      !.heap[p].reliableMessageNumber =
                          IF conn[c].heap[p].reliable
                          THEN conn[c].outboundReliableMessageNumberCounter ELSE 0,
                      !.heap[p].sendCount = 0,
                      !.outboundReliableMessageNumberCounter =
                          IF conn[c].heap[p].reliable THEN @ + 1 ELSE @]} :
          conn' = [conn EXCEPT ![c] =
                      IF AcceptQueueHasRoom(s2)
                      THEN [s2 EXCEPT !.outboundAcceptQueue = Append(@, p)]
                      ELSE FreeMessage(IF s2.heap[p].reliable THEN LogCritical(s2)
                                       ELSE s2, p)]
    /\ appPc' = [appPc EXCEPT ![c] = "idle"]
    /\ UNCHANGED <<net, sent, submitted, faults>>

(***************************************************************************)
(* The application takes what the worker has put on inboundMessageQueue;   *)
(* received is the log of the messages it was given, by the registered     *)
(* handler of ProcessMessages or as the return value of ReceiveMessage.    *)
(* The messages counted in inboundQueueBacklog are in front of those       *)
(* listed and are not logged.                                              *)
(***************************************************************************)
\* ProcessMessages() with a handler registered and no limit on the number of
\* messages.
AppProcessMessages(c) ==
    /\ appPc[c] = "idle"
    /\ conn' = [conn EXCEPT ![c] =
                   IF @.connectionState = "ConnectionClosed"
                   THEN Close(@)
                   ELSE [@ EXCEPT !.received = @ \o conn[c].inboundMessageQueue,
                                  !.inboundMessageQueue = <<>>,
                                  !.inboundQueueBacklog = 0]]
    /\ UNCHANGED <<net, sent, submitted, appPc, faults>>

\* ReceiveMessage(-1): the front of the queue is returned without waiting.
AppReceiveMessage(c) ==
    /\ appPc[c] = "idle"
    /\ conn' = [conn EXCEPT ![c] =
                   IF @.connectionState = "ConnectionClosed" THEN Close(@)
                   ELSE IF InboundQueueSize(@) = 0 THEN @
                   ELSE IF @.inboundQueueBacklog > 0
                   THEN [@ EXCEPT !.inboundQueueBacklog = @ - 1]
                   ELSE [@ EXCEPT !.received = Append(@, Head(conn[c].inboundMessageQueue)),
                                  !.inboundMessageQueue = Tail(@)]]
    /\ UNCHANGED <<net, sent, submitted, appPc, faults>>

\* Disconnect(0) up to and including PerformDisconnection: the socket state
\* is propagated and the switch reads connectionState.
DisconnectSwitch(c, s1) ==
    IF s1.connectionState \in {"ConnectionPending", "ConnectionOK"}
    THEN /\ conn' = [conn EXCEPT ![c] = PerformDisconnection(s1)]
         /\ appPc' = [appPc EXCEPT ![c] = "setDisconnecting"]
    ELSE IF s1.connectionState = "ConnectionPeerClosed"
    THEN /\ conn' = [conn EXCEPT ![c] = PerformDisconnection(s1)]
         /\ appPc' = [appPc EXCEPT ![c] = "setClosed"]
    ELSE /\ conn' = [conn EXCEPT ![c] = s1]
         /\ appPc' = appPc

DisconnectBegin(c) ==
    /\ appPc[c] = "idle"
    /\ Cardinality(conn[c].freePtrs) >= 1
    /\ DisconnectSwitch(c, PropagateSocketState(conn[c]))
    /\ UNCHANGED <<net, sent, submitted, faults>>

\* The rest of Disconnect(0): the write of connectionState, and Close(0) if
\* the connection is then closed.
WriteConnectionState(s, state) ==
    IF state = "ConnectionClosed"
    THEN Close([s EXCEPT !.connectionState = state])
    ELSE [s EXCEPT !.connectionState = state]

DisconnectEnd(c) ==
    /\ appPc[c] \in {"setDisconnecting", "setClosed"}
    /\ conn' = [conn EXCEPT ![c] =
                   WriteConnectionState(@,
                       IF appPc[c] = "setDisconnecting"
                       THEN "ConnectionDisconnecting" ELSE "ConnectionClosed")]
    /\ appPc' = [appPc EXCEPT ![c] = "idle"]
    /\ UNCHANGED <<net, sent, submitted, faults>>

(***************************************************************************)
(* UDPMessageConnection::SendOutPackets: SendOutPacket is repeated while   *)
(* it succeeds and the pacing timer allows; sends is the number of         *)
(* datagrams the timer allows in this call.  dgs: the datagrams sent.      *)
(***************************************************************************)
RECURSIVE SendOutPacketsLoop(_, _, _)
AfterPacket(r, dgs, maxSends) ==
    IF r.result # "PacketSendOK"
    THEN [s |-> r.s, dgs |-> dgs, result |-> r.result]
    ELSE SendOutPacketsLoop(r.s, dgs \cup {r.dg}, maxSends - 1)

SendOutPacketsLoop(s, dgs, maxSends) ==
    IF maxSends <= 0 \/ TimeUntilCanSendPacket(s) # 0
    THEN [s |-> s, dgs |-> dgs, result |-> "PacketSendOK"]
    ELSE AfterPacket(SendOutPacket(s, CanSendOutNewDatagram(s), ~s.socketFull),
                     dgs, maxSends)

\* The clock stands sends pacing slots after lastDatagramSendTime when
\* SendOutPackets reads it; what it reads at the next call is an input again.
SendOutPacketsOp(s, sends) ==
    LET r == SendOutPacketsLoop(
                 [s EXCEPT !.ticksSinceDatagramSend = sends * DatagramSendTickDelay(s)],
                 {}, 50)
    IN [r EXCEPT !.s.ticksSinceDatagramSend = 0]

(***************************************************************************)
(* One pass of NetworkWorkerThread::MainLoop over connection c:            *)
(* UpdateConnection; a closed connection is skipped; otherwise ReadSocket  *)
(* (here: at most one waiting datagram) and SendOutPackets.  Keeps: may    *)
(* the network hand the datagram read to the socket a second time;         *)
(* Timeouts: how many retransmission timeouts may fire in the run.         *)
(***************************************************************************)
ReadStage(s, in) ==
    IF s.connectionState # "ConnectionClosed" /\ in.read
    THEN ReadSocketOp(s, in.dg, in) ELSE s

\* u: the connection as UpdateConnection left it; s: as ReadSocket left it.
SendStage(u, s, in) ==
    IF u.connectionState = "ConnectionClosed"
    THEN [s |-> s, dgs |-> {}, result |-> "PacketSendOK"]
    ELSE SendOutPacketsOp(s, in.sends)

\* What the clock decides in one pass.  expired: the tracks that time out;
\* rtt: the age of an acknowledged track.
RttInputs == {50}

NoFaultInputs ==
    [statsDue |-> TRUE, udpDue |-> TRUE, numFrames |-> 1, stampOld |-> FALSE]

\* The pool holds enough objects for what one pass allocates.
PoolSuffices(s, in) ==
    Cardinality(s.freePtrs) >=
        AckMessagesNeeded(s.inboundPacketAckTrack) + 1
        + (IF in.read THEN Len(in.dg.msgs) ELSE 0)
        + (IF in.pingDue THEN 1 ELSE 0)

\* Pings: may the ping timer go off in this pass; AckDues: what the clock
\* may say about the age of the first pending ack entry.
WorkerPass(c, Keeps, Timeouts, Pings, AckDues) ==
    \E read \in BOOLEAN, keep \in Keeps, ackDue \in AckDues, pingDue \in Pings,
       rtt \in RttInputs, sends \in 0 .. MaxBurst,
       expired \in 0 .. Min(Len(conn[c].outboundPacketAckTrack),
                            Timeouts - faults.timeouts) :
      \E dg \in IF read THEN net[c] ELSE {NoDatagram} :
       \E in \in {[pingDue |-> pingDue, lastHeardExpired |-> conn[c].silent]
                  @@ NoFaultInputs @@
                  [read |-> read, dg |-> dg, rtt |-> rtt, ackDue |-> ackDue,
                   sends |-> sends, expired |-> expired]} :
        /\ keep => (read /\ faults.dup < MaxDup)
        /\ pingDue => (conn[c].lastPingID < MaxPings \/ conn[c].silent)
        /\ PoolSuffices(conn[c], in)
        /\ \E u \in {UpdateConnectionOp(conn[c], in)} :
           \E rd \in {ReadStage(u, in)} :
           \E r \in {SendStage(u, rd, in)} :
              /\ conn' = [conn EXCEPT ![c] = r.s]
              /\ net' = [net EXCEPT
                            ![c] = IF read /\ ~keep THEN @ \ {dg} ELSE @,
                            ![Peer(c)] = @ \cup r.dgs]
              /\ sent' = [sent EXCEPT ![c] = @ \cup r.dgs]
              /\ faults' = [faults EXCEPT
                               !.timeouts = @ + expired,
                               !.dup = IF keep THEN @ + 1 ELSE @,
                               !.sendFails = IF r.result = "PacketSendSocketFull"
                                             THEN @ + 1 ELSE @]
        /\ UNCHANGED <<submitted, appPc>>

\* A pass in which the ping timer does not go off and the age of the pending
\* acks is anything.
WorkerTick(c, Keeps, Timeouts) ==
    WorkerPass(c, Keeps, Timeouts, {FALSE}, BOOLEAN)

\* A pass in which the timers read the clock the connection's ticks were
\* taken from.
WorkerTimed(c, Pings) ==
    WorkerPass(c, {FALSE}, 0, Pings, {AckIsDue(conn[c])})

(***************************************************************************)
(* Time passes without any step of the program: at least half of          *)
(* maxAckDelay and less than the whole, or maxAckDelay (33 ms), or more     *)
(* than 5 s, or connectionLostTimeout (15 s) in which nothing was read     *)
(* from the socket.                                                        *)
(***************************************************************************)
TimePasses(c) ==
    /\ \/ conn' = [conn EXCEPT
                       ![c].ackOverdue = @ \cup conn[c].ackAged,
                       ![c].ackAged = conn[c].inboundPacketAckTrack]
       \/ conn' = [conn EXCEPT
                       ![c].ackOverdue = conn[c].inboundPacketAckTrack,
                       ![c].ackAged = conn[c].inboundPacketAckTrack]
       \/ conn' = [conn EXCEPT
                       ![c].ackOverdue = conn[c].inboundPacketAckTrack,
                       ![c].ackAged = conn[c].inboundPacketAckTrack,
                       ![c].staleStamps = DOMAIN conn[c].inboundContentIDStamps]
       \/ conn' = [conn EXCEPT
                       ![c].ackOverdue = conn[c].inboundPacketAckTrack,
                       ![c].ackAged = conn[c].inboundPacketAckTrack,
                       ![c].staleStamps = DOMAIN conn[c].inboundContentIDStamps,
                       ![c].silent = TRUE]
    /\ UNCHANGED <<net, sent, submitted, appPc, faults>>

(***************************************************************************)
(* The network: it may drop a datagram; the worker takes the waiting       *)
(* datagrams in any order and may see one twice.                           *)
(***************************************************************************)
DropDatagram(c) ==
    /\ faults.loss < MaxLoss
    /\ \E dg \in net[c] : net' = [net EXCEPT ![c] = @ \ {dg}]
    /\ faults' = [faults EXCEPT !.loss = @ + 1]
    /\ UNCHANGED <<conn, sent, submitted, appPc>>

\* Loss, reordering and retransmission.
Next ==
    \/ AppSendMessage("A", SmallMenu, MaxSubmit)
    \/ \E c \in Conn : WorkerTick(c, {FALSE}, MaxTimeouts)
    \/ \E c \in Conn : DropDatagram(c)

Spec == Init /\ [][Next]_vars

\* Loss, reordering, retransmission and duplication.
NextDup ==
    \/ AppSendMessage("A", SmallMenu, MaxSubmit)
    \/ \E c \in Conn : WorkerTick(c, BOOLEAN, MaxTimeouts)
    \/ \E c \in Conn : DropDatagram(c)

SpecDup == Init /\ [][NextDup]_vars

\* Messages that share a content id.
NextContent ==
    \/ AppSendMessage("A", ContentMenu, MaxContentSubmit)
    \/ \E c \in Conn : WorkerTick(c, {FALSE}, MaxTimeouts)
    \/ \E c \in Conn : DropDatagram(c)

SpecContent == Init /\ [][NextContent]_vars

\* Messages larger than a datagram, on a network that reorders.
NextFrag ==
    \/ AppSendMessage("A", LargeMenu, MaxSubmit)
    \/ \E c \in Conn : WorkerTick(c, {FALSE}, 0)

SpecFrag == Init /\ [][NextFrag]_vars

(***************************************************************************)
(* A peer implementation that answers MsgIdDisconnect with a datagram that *)
(* carries a MsgIdDisconnectAck message without payload.                   *)
(***************************************************************************)
InjectedPacketIDBase == 100

DisconnectAckDatagram(packetID) ==
    [b0 |-> packetID % 64, w1 |-> packetID \div 64, base |-> 0,
     msgs |-> <<[hdr |-> 4, delta |-> 0, numTotalFragments |-> 0,
                 transferID |-> 0, fragmentIndex |-> 0,
                 content |-> [hasId |-> TRUE, id |-> MsgIdDisconnectAck,
                              data |-> <<>>, ctl |-> <<>>]]>>]

InjectDisconnectAck(c) ==
    /\ faults.inject < MaxInject
    /\ net' = [net EXCEPT ![c] =
                  @ \cup {DisconnectAckDatagram(InjectedPacketIDBase + faults.inject)}]
    /\ faults' = [faults EXCEPT !.inject = @ + 1]
    /\ UNCHANGED <<conn, sent, submitted, appPc>>

\* The application of A sends and disconnects while the workers run.
NextDisc ==
    \/ AppSendMessage("A", ReliableMenu, MaxDiscSubmit)
    \/ DisconnectBegin("A")
    \/ DisconnectEnd("A")
    \/ \E c \in Conn : WorkerTick(c, {FALSE}, MaxTimeouts)

SpecDisc == Init /\ [][NextDisc]_vars

\* The worker thread keeps running and Disconnect() runs to its end.
SpecDiscFair ==
    /\ Init /\ [][NextDisc]_vars
    /\ WF_vars(DisconnectEnd("A"))
    /\ \A c \in Conn : WF_vars(WorkerTick(c, {FALSE}, MaxTimeouts))

\* The same against a peer that acknowledges the disconnect.
NextDiscAck ==
    \/ DisconnectBegin("A")
    \/ DisconnectEnd("A")
    \/ \E c \in Conn : WorkerTick(c, {FALSE}, MaxTimeouts)
    \/ InjectDisconnectAck("A")

SpecDiscAck == Init /\ [][NextDiscAck]_vars

(***************************************************************************)
(* The socket under the connection: the operating system may close its     *)
(* read side or its write side at any time.                                *)
(***************************************************************************)
SocketCloses(c) ==
    /\ \/ /\ conn[c].socketReadOpen
          /\ conn' = [conn EXCEPT ![c].socketReadOpen = FALSE]
       \/ /\ conn[c].socketWriteOpen
          /\ conn' = [conn EXCEPT ![c].socketWriteOpen = FALSE]
    /\ UNCHANGED <<net, sent, submitted, appPc, faults>>

\* Disconnect() is called again and again while the socket changes.
NextSock ==
    \/ DisconnectBegin("A")
    \/ DisconnectEnd("A")
    \/ \E c \in Conn : WorkerTick(c, {FALSE}, MaxTimeouts)
    \/ SocketCloses("A")

SpecSock == Init /\ [][NextSock]_vars

(***************************************************************************)
(* A peer that has fallen silent: nothing arrives at A any more, while the *)
(* application of A may disconnect and the clock runs.                     *)
(***************************************************************************)
NextLive ==
    \/ DisconnectBegin("A")
    \/ DisconnectEnd("A")
    \/ WorkerTimed("A", BOOLEAN)
    \/ TimePasses("A")

SpecLive == Init /\ [][NextLive]_vars

\* The worker keeps running, its ping timer keeps going off, and Disconnect()
\* runs to its end.
SpecLiveFair ==
    /\ Init /\ [][NextLive]_vars
    /\ WF_vars(DisconnectEnd("A"))
    /\ WF_vars(WorkerTimed("A", BOOLEAN))
    /\ WF_vars(WorkerTimed("A", {TRUE}))

(***************************************************************************)
(* Ack coalescing at B: reliable datagrams of A have arrived, some were    *)
(* lost on the way, and their ids wait in inboundPacketAckTrack.           *)
(***************************************************************************)
AckSeedBases == {0, 7, PacketIDModulus - 2, PacketIDModulus - 33}

AckSeedShapes ==
    {0 .. k : k \in {0, 1, 31, 32, MaxAckRun - 1}}
    \cup {{0, 2}, {0, 32}, {0, 33}, {0, 1, 33, 34}, {0, 2, 32, 40}, {1, 3, 36}}

AckSeeds ==
    {{AddPacketID(b, o) : o \in shape} : b \in AckSeedBases, shape \in AckSeedShapes}

InitAck ==
    /\ \E seed \in AckSeeds :
          conn = [c \in Conn |->
                    IF c = "B"
                    THEN [InitConnection("ConnectionOK") EXCEPT
                             !.inboundPacketAckTrack = seed,
                             !.receivedPacketIDs = seed]
                    ELSE InitConnection("ConnectionOK")]
    /\ net = [c \in Conn |-> {}]
    /\ sent = [c \in Conn |-> {}]
    /\ submitted = <<>>
    /\ appPc = [c \in Conn |-> "idle"]
    /\ faults = NoFaults

NextAck ==
    \/ WorkerTimed("B", {FALSE})
    \/ TimePasses("B")

SpecAck == InitAck /\ [][NextAck]_vars

(***************************************************************************)
(* Reliable messages from A to B over a network that reorders, while the   *)
(* clock of B runs.                                                        *)
(***************************************************************************)
NextAckDelay ==
    \/ AppSendMessage("A", ReliableMenu, MaxSubmit)
    \/ \E c \in Conn : WorkerTimed(c, {FALSE})
    \/ TimePasses("B")

SpecAckDelay == Init /\ [][NextAckDelay]_vars

(***************************************************************************)
(* The connection after A has sent 2^22 - 1 datagrams: the next datagram   *)
(* carries the last packet id before the wrap.  B either remembers no      *)
(* packet id any more, or it still remembers packet id 0 of the round      *)
(* before: it has read that datagram, and of those A sent after it fewer   *)
(* reached B than receivedPacketIDs holds.                                 *)
(***************************************************************************)
InitWrap ==
    /\ \E remembered \in {{}, {0}} :
          conn = [c \in Conn |->
                    IF c = "A"
                    THEN [InitConnection("ConnectionOK") EXCEPT
                             !.datagramPacketIDCounter = PacketIDModulus - 1,
                             !.lastSentInOrderPacketID = PacketIDModulus - 2]
                    ELSE [InitConnection("ConnectionOK") EXCEPT
                             !.receivedPacketIDs = remembered]]
    /\ net = [c \in Conn |-> {}]
    /\ sent = [c \in Conn |-> {}]
    /\ submitted = <<>>
    /\ appPc = [c \in Conn |-> "idle"]
    /\ faults = NoFaults

NextWrap ==
    \/ AppSendMessage("A", SmallMenu, MaxSubmit)
    \/ \E c \in Conn : WorkerTick(c, {FALSE}, MaxTimeouts)

SpecWrap == InitWrap /\ [][NextWrap]_vars

(***************************************************************************)
(* The application of A has run ahead of the worker: outboundAcceptQueue   *)
(* is full, or has room for one more message, and the application goes on  *)
(* sending.                                                                *)
(***************************************************************************)
FullMenu ==
    [reliable : BOOLEAN, contentID : {0}, size : {SmallSize, LargeSize}]

InitFull ==
    /\ \E backlog \in {AcceptQueueCapacity - 1, AcceptQueueCapacity} :
          conn = [c \in Conn |->
                    IF c = "A"
                    THEN [InitConnection("ConnectionOK") EXCEPT
                             !.acceptQueueBacklog = backlog]
                    ELSE InitConnection("ConnectionOK")]
    /\ net = [c \in Conn |-> {}]
    /\ sent = [c \in Conn |-> {}]
    /\ submitted = <<>>
    /\ appPc = [c \in Conn |-> "idle"]
    /\ faults = NoFaults

NextFull == AppSendMessage("A", FullMenu, MaxFullSubmit)

SpecFull == InitFull /\ [][NextFull]_vars

(***************************************************************************)
(* The application of A pauses and resumes the outbound sends while it     *)
(* sends unreliable messages of one content id.                            *)
(***************************************************************************)
PauseOutboundSends(c) ==
    /\ appPc[c] = "idle"
    /\ ~conn[c].bOutboundSendsPaused
    /\ faults.pauses < MaxPauses
    /\ conn' = [conn EXCEPT ![c].bOutboundSendsPaused = TRUE]
    /\ faults' = [faults EXCEPT !.pauses = @ + 1]
    /\ UNCHANGED <<net, sent, submitted, appPc>>

ResumeOutboundSends(c) ==
    /\ appPc[c] = "idle"
    /\ conn[c].bOutboundSendsPaused
    /\ conn' = [conn EXCEPT ![c].bOutboundSendsPaused = FALSE]
    /\ UNCHANGED <<net, sent, submitted, appPc, faults>>

PauseMenu ==
    [reliable : {FALSE}, contentID : {AppContentID}, size : {SmallSize}]

NextPause ==
    \/ AppSendMessage("A", PauseMenu, MaxPauseSubmit)
    \/ PauseOutboundSends("A")
    \/ ResumeOutboundSends("A")
    \/ \E c \in Conn : WorkerTick(c, {FALSE}, 0)

SpecPause == Init /\ [][NextPause]_vars

(***************************************************************************)
(* A datagram on its way to c arrives cut short: the cut falls into the    *)
(* content of its i-th message, after the message header.                  *)
(***************************************************************************)
CutShort(dg, i) ==
    [dg EXCEPT !.msgs = Append(SubSeq(dg.msgs, 1, i - 1),
                               [dg.msgs[i] EXCEPT !.content.data = <<>>])]

TruncateDatagram(c) ==
    /\ faults.cuts < MaxCuts
    /\ \E dg \in net[c] :
          \E i \in DOMAIN dg.msgs :
             /\ Malformed(CutShort(dg, i).msgs[i])
             /\ net' = [net EXCEPT ![c] = (@ \ {dg}) \cup {CutShort(dg, i)}]
    /\ faults' = [faults EXCEPT !.cuts = @ + 1]
    /\ UNCHANGED <<conn, sent, submitted, appPc>>

NextTrunc ==
    \/ AppSendMessage("A", SmallMenu, MaxSubmit)
    \/ \E c \in Conn : WorkerTick(c, {FALSE}, MaxTimeouts)
    \/ TruncateDatagram("B")

SpecTrunc == Init /\ [][NextTrunc]_vars

(***************************************************************************)
(* Messages of one content id from A to B over a network that reorders,    *)
(* while the clock of B runs.                                              *)
(***************************************************************************)
NextStamp ==
    \/ AppSendMessage("A", ContentMenu, MaxContentSubmit)
    \/ \E c \in Conn : WorkerTick(c, {FALSE}, 0)
    \/ TimePasses("B")

SpecStamp == Init /\ [][NextStamp]_vars

(***************************************************************************)
(* All 256 transfer ids are taken: each is held by a fragmented transfer   *)
(* started earlier whose one remaining fragment waits for its ack in a     *)
(* pool object beyond those listed in heap.  The ack of such a transfer    *)
(* arrives: FreeOutboundPacketAckTrack removes the fragment from its       *)
(* transfer, which releases the id.                                        *)
(***************************************************************************)
MaxTransferDatagrams == 2   \* datagrams a connection sends

BacklogTransfers == 1 .. 256
BacklogFragment(h) == PoolSize + 1000 + h
\* The transfers whose ack may arrive.
BacklogAcked == {1, 256}

InitTransfer ==
    /\ conn = [c \in Conn |->
                 IF c = "A"
                 THEN [InitConnection("ConnectionOK") EXCEPT
                          !.fragmentedSends =
                              [h \in BacklogTransfers |->
                                  [id |-> h - 1, totalNumFragments |-> 2,
                                   fragments |-> {BacklogFragment(h)}]],
                          !.nextTransfer = 257]
                 ELSE InitConnection("ConnectionOK")]
    /\ net = [c \in Conn |-> {}]
    /\ sent = [c \in Conn |-> {}]
    /\ submitted = <<>>
    /\ appPc = [c \in Conn |-> "idle"]
    /\ faults = NoFaults

BacklogTransferAcked(c) ==
    /\ \E h \in BacklogAcked \cap DOMAIN conn[c].fragmentedSends :
          conn' = [conn EXCEPT ![c] = RemoveMessage(@, h, BacklogFragment(h))]
    /\ UNCHANGED <<net, sent, submitted, appPc, faults>>

NextTransfer ==
    \/ AppSendMessage("A", LargeMenu, MaxSubmit)
    \/ \E c \in Conn : /\ conn[c].datagramPacketIDCounter < MaxTransferDatagrams
                       /\ WorkerTick(c, {FALSE}, 0)
    \/ BacklogTransferAcked("A")

SpecTransfer == InitTransfer /\ [][NextTransfer]_vars

(***************************************************************************)
(* Pings between two connections that are alive.  The application of B     *)
(* may have left its inbound queue with fewer than 64 free places.         *)
(***************************************************************************)
InitPing ==
    /\ \E backlog \in {0, InboundQueueCapacity - MinInboundCapacityLeft + 1} :
          conn = [c \in Conn |->
                    IF c = "B"
                    THEN [InitConnection("ConnectionOK") EXCEPT
                             !.inboundQueueBacklog = backlog]
                    ELSE InitConnection("ConnectionOK")]
    /\ net = [c \in Conn |-> {}]
    /\ sent = [c \in Conn |-> {}]
    /\ submitted = <<>>
    /\ appPc = [c \in Conn |-> "idle"]
    /\ faults = NoFaults

NextPing ==
    \/ \E c \in Conn : WorkerTimed(c, BOOLEAN)
    \/ TimePasses("B")

SpecPing == InitPing /\ [][NextPing]_vars

(***************************************************************************)
(* A socket whose send buffer fills up: EndSend fails until it drains.     *)
(***************************************************************************)
MaxSendFails == 1   \* SendOutPacket calls whose EndSend fails

SocketFills(c) ==
    /\ ~conn[c].socketFull
    /\ faults.sendFails < MaxSendFails
    /\ conn' = [conn EXCEPT ![c].socketFull = TRUE]
    /\ UNCHANGED <<net, sent, submitted, appPc, faults>>

SocketDrains(c) ==
    /\ conn[c].socketFull
    /\ conn' = [conn EXCEPT ![c].socketFull = FALSE]
    /\ UNCHANGED <<net, sent, submitted, appPc, faults>>

SendFailMenu ==
    [reliable : BOOLEAN, contentID : {0, AppContentID}, size : {SmallSize}]

NextSendFail ==
    \/ AppSendMessage("A", SendFailMenu, MaxSubmit)
    \/ \E c \in Conn : /\ faults.sendFails < MaxSendFails
                       /\ WorkerTick(c, {FALSE}, MaxTimeouts)
    \/ SocketFills("A")
    \/ SocketDrains("A")

SpecSendFail == Init /\ [][NextSendFail]_vars

(***************************************************************************)
(* Retransmission timeouts under a clock.  The estimator of A starts as an *)
(* ack, a timeout and another ack leave it: smoothedRTT 875.006,           *)
(* rttVariation 249.987 and retransmissionTimeout 2250.986 ms.  The clock  *)
(* advances by TimeoutStep or up to the next timeoutTick of a track.       *)
(***************************************************************************)
TimeoutStep == 2000000
MaxRTODatagrams == 3   \* datagrams a connection sends

InitRTO ==
    /\ conn = [c \in Conn |->
                 IF c = "A"
                 THEN Then(UpdateRTOCounterOnPacketAck(
                               InitConnection("ConnectionOK"), 50),
                           LAMBDA s1 :
                      Then(UpdateRTOCounterOnPacketLoss(s1), LAMBDA s2 :
                           [UpdateRTOCounterOnPacketAck(s2, 50)
                               EXCEPT !.numLossesLastFrame = 0]))
                 ELSE InitConnection("ConnectionOK")]
    /\ net = [c \in Conn |-> {}]
    /\ sent = [c \in Conn |-> {}]
    /\ submitted = <<>>
    /\ appPc = [c \in Conn |-> "idle"]
    /\ faults = NoFaults

\* The time until the next timeoutTick of a track of s.
NextTimeout(s) ==
    MinOf({s.outboundPacketAckTrack[i].timeout : i \in DOMAIN s.outboundPacketAckTrack}
          \ {0})

ClockAdvances(c) ==
    /\ \E i \in DOMAIN conn[c].outboundPacketAckTrack :
          ~TimedOut(conn[c].outboundPacketAckTrack[i])
    /\ \E d \in {TimeoutStep, NextTimeout(conn[c])} :
          conn' = [conn EXCEPT ![c].outboundPacketAckTrack =
                      [i \in DOMAIN @ |-> [@[i] EXCEPT !.timeout = Max(0, @ - d)]]]
    /\ UNCHANGED <<net, sent, submitted, appPc, faults>>

NextRTO ==
    \/ AppSendMessage("A", ReliableMenu, MaxSubmit)
    \/ \E c \in Conn : /\ conn[c].datagramPacketIDCounter < MaxRTODatagrams
                       /\ WorkerTick(c, {FALSE}, 0)
    \/ ClockAdvances("A")

SpecRTO == InitRTO /\ [][NextRTO]_vars

(***************************************************************************)
(* Messages that fill a datagram: two messages of HalfSize bytes are the   *)
(* largest pair of in-order messages the size check of SendOutPacket puts  *)
(* into one datagram (3 + 2 + 2 * (3 + HalfSize) = MaxSendSize - 1).       *)
(***************************************************************************)
HalfSize == (MaxSendSize - 12) \div 2

SizeMenu ==
    [reliable : BOOLEAN, contentID : {0}, size : {SmallSize, HalfSize}]

\* The bytes the DataSerializer of SendOutPacket has filled for datagram dg:
\* u8 and u16 of packet id and flags, the VLE16_32 base number, and per
\* message the u16 header and the fields the header announces.
DatagramWireSize(dg) ==
    LET VLE16_32_Bytes(v) == IF v < 32768 THEN 2 ELSE 4
        VLE8_16_Bytes(v) == IF v < 128 THEN 1 ELSE 2
        MessageWireSize(m) ==
            LET reliable == (m.hdr \div 4096) % 2 = 1
                fragmentedTransfer == (m.hdr \div 16384) % 2 = 1
                firstFragment == (m.hdr \div 32768) % 2 = 1
            IN 2
               + (IF reliable THEN VLE8_16_Bytes(m.delta) ELSE 0)
               + (IF firstFragment THEN VLE8_16_32_Bytes(m.numTotalFragments) ELSE 0)
               + (IF fragmentedTransfer THEN 1 ELSE 0)
               + (IF ~firstFragment /\ fragmentedTransfer
                  THEN VLE8_16_32_Bytes(m.fragmentIndex) ELSE 0)
               + (IF m.content.hasId THEN VLE8_16_32_Bytes(m.content.id) ELSE 0)
               + BytesOf(m.content.data)
        Sum[i \in 0 .. Len(dg.msgs)] ==
            IF i = 0 THEN 0 ELSE Sum[i - 1] + MessageWireSize(dg.msgs[i])
    IN 3 + (IF (dg.b0 \div 64) % 2 = 1 THEN VLE16_32_Bytes(dg.base) ELSE 0)
       + Sum[Len(dg.msgs)]

NextSize ==
    \/ AppSendMessage("A", SizeMenu, MaxSubmit)
    \/ \E c \in Conn : WorkerTick(c, {FALSE}, 0)

SpecSize == Init /\ [][NextSize]_vars

(***************************************************************************)
(* The pacing timer read from the clock: A's last datagram went out        *)
(* between MinLagSlots and MaxLagSlots pacing slots ago, in steps of half  *)
(* a slot, and its send rate is what the first frame of the flow control   *)
(* left.  Every SendOutPackets call reads the clock where the connection   *)
(* holds it.                                                               *)
(***************************************************************************)
MinLagSlots == 18
MaxLagSlots == 22
MaxPacedDatagrams == 2   \* datagrams a connection sends

InitPacing ==
    /\ \E k \in 2 * MinLagSlots .. 2 * MaxLagSlots :
         \E s \in {HandleFlowControl(InitConnection("ConnectionOK"), 1)} :
          conn = [c \in Conn |->
                    IF c = "A"
                    THEN [s EXCEPT !.ticksSinceDatagramSend =
                                       k * (DatagramSendTickDelay(s) \div 2)]
                    ELSE InitConnection("ConnectionOK")]
    /\ net = [c \in Conn |-> {}]
    /\ sent = [c \in Conn |-> {}]
    /\ submitted = <<>>
    /\ appPc = [c \in Conn |-> "idle"]
    /\ faults = NoFaults

\* One pass of the worker over connection c that reads the pacing clock.
PacedPass(c) ==
    /\ conn[c].datagramPacketIDCounter < MaxPacedDatagrams
    /\ \E read \in BOOLEAN :
       \E dg \in IF read THEN net[c] ELSE {NoDatagram} :
       \E in \in {[pingDue |-> FALSE, lastHeardExpired |-> FALSE]
                  @@ NoFaultInputs @@
                  [read |-> read, dg |-> dg, rtt |-> 50, ackDue |-> TRUE,
                   sends |-> 0, expired |-> 0]} :
        /\ PoolSuffices(conn[c], in)
        /\ \E u \in {UpdateConnectionOp(conn[c], in)} :
           \E rd \in {ReadStage(u, in)} :
           \E r \in {IF u.connectionState = "ConnectionClosed"
                     THEN [s |-> rd, dgs |-> {}, result |-> "PacketSendOK"]
                     ELSE SendOutPacketsLoop(rd, {}, 50)} :
              /\ conn' = [conn EXCEPT ![c] = r.s]
              /\ net' = [net EXCEPT ![c] = IF read THEN @ \ {dg} ELSE @,
                                    ![Peer(c)] = @ \cup r.dgs]
              /\ sent' = [sent EXCEPT ![c] = @ \cup r.dgs]
    /\ UNCHANGED <<submitted, appPc, faults>>

NextPacing ==
    \/ AppSendMessage("A", SmallMenu, MaxSubmit)
    \/ \E c \in Conn : PacedPass(c)

SpecPacing == InitPacing /\ [][NextPacing]_vars

(***************************************************************************)
(* A crowded datagram: a peer has packed one message more than             *)
(* MinInboundCapacityLeft, each reliable, in-order and one byte long, into *)
(* one datagram on its way to B, whose application has left a backlog in   *)
(* the inbound queue: none, or all but MinInboundCapacityLeft places, or   *)
(* one more.                                                               *)
(***************************************************************************)
CrowdedDatagram ==
    [b0 |-> (InjectedPacketIDBase % 64) + 64 + 128,
     w1 |-> InjectedPacketIDBase \div 64, base |-> 0,
     msgs |-> [i \in 1 .. MinInboundCapacityLeft + 1 |->
                 [hdr |-> 4096 + 8192 + 1 + VLE8_16_32_Bytes(AppMessageID),
                  delta |-> i - 1, numTotalFragments |-> 0,
                  transferID |-> 0, fragmentIndex |-> 0,
                  content |-> [hasId |-> TRUE, id |-> AppMessageID,
                               data |-> Buffer(i, 1), ctl |-> <<>>]]]]

InitCrowd ==
    /\ \E backlog \in {0, InboundQueueCapacity - MinInboundCapacityLeft,
                       InboundQueueCapacity - MinInboundCapacityLeft + 1} :
          conn = [c \in Conn |->
                    IF c = "B"
                    THEN [InitConnection("ConnectionOK") EXCEPT
                             !.inboundQueueBacklog = backlog]
                    ELSE InitConnection("ConnectionOK")]
    /\ net = [c \in Conn |-> IF c = "B" THEN {CrowdedDatagram} ELSE {}]
    /\ sent = [c \in Conn |-> {}]
    /\ submitted = <<>>
    /\ appPc = [c \in Conn |-> "idle"]
    /\ faults = NoFaults

SpecCrowd == InitCrowd /\ [][Next]_vars

(***************************************************************************)
(* Messages around the size at which EndAndQueueMessage splits: the        *)
(* largest that is sent whole, the smallest that is split, and one that    *)
(* fills its fragments exactly; reliable or not, with a content id or not. *)
(***************************************************************************)
SplitMenu ==
    [reliable : BOOLEAN, contentID : {0, AppContentID},
     size : {MaxSendSize - sendHeaderUpperBound,
             MaxSendSize - sendHeaderUpperBound + 1,
             5 * (MaxSendSize \div 4 - sendHeaderUpperBound)}]

\* The application of A submits while the worker of A runs.
NextSplit ==
    \/ AppSendMessage("A", SplitMenu, MaxSubmit)
    \/ WorkerTick("A", {FALSE}, 0)

SpecSplit == Init /\ [][NextSplit]_vars

(***************************************************************************)
(* The socket of A closes while the peer sends and the workers run; the    *)
(* application of A makes no call.  The worker of A keeps running, and its *)
(* statistics timer goes off in every pass.                                *)
(***************************************************************************)
NextClosure ==
    \/ AppSendMessage("B", SmallMenu, MaxSubmit)
    \/ \E c \in Conn : WorkerTick(c, {FALSE}, 0)
    \/ SocketCloses("A")

SpecClosureFair ==
    /\ Init /\ [][NextClosure]_vars
    /\ WF_vars(WorkerTick("A", {FALSE}, 0))

(***************************************************************************)
(* The application of A submits small messages while the worker of A runs  *)
(* and its ping timer goes off: both threads take message numbers.         *)
(***************************************************************************)
NextRace ==
    \/ SendMessageBegin("A", SmallMenu, MaxSubmit)
    \/ SendMessageEnd("A")
    \/ WorkerPass("A", {FALSE}, 0, BOOLEAN, {FALSE})

SpecRace == Init /\ [][NextRace]_vars

(***************************************************************************)
(* Every way an outbound message changes hands: all transfer ids are taken *)
(* when A starts, the application of A submits small and large messages,   *)
(* the socket of A fills and drains, datagrams time out and are            *)
(* acknowledged.                                                           *)
(***************************************************************************)
NextOwn ==
    \/ AppSendMessage("A", FullMenu, MaxSubmit)
    \/ \E c \in Conn : /\ faults.sendFails < MaxSendFails
                       /\ conn[c].datagramPacketIDCounter < MaxTransferDatagrams
                       /\ WorkerTick(c, {FALSE}, MaxTimeouts)
    \/ SocketFills("A")
    \/ SocketDrains("A")
    \/ BacklogTransferAcked("A")

SpecOwn == InitTransfer /\ [][NextOwn]_vars

(***************************************************************************)
(* B sends to A; the application of A picks up what has arrived, and it    *)
(* keeps calling ProcessMessages until it disconnects from a peer that     *)
(* acknowledges the disconnect.                                            *)
(***************************************************************************)
NextPickup ==
    \/ AppSendMessage("B", ReliableMenu, MaxDiscSubmit)
    \/ \E c \in Conn : WorkerTick(c, {FALSE}, 0)
    \/ AppProcessMessages("A")
    \/ AppReceiveMessage("A")
    \/ DisconnectBegin("A")
    \/ DisconnectEnd("A")
    \/ /\ \E dg \in sent["A"] : \E i \in DOMAIN dg.msgs :
             dg.msgs[i].content.hasId /\ dg.msgs[i].content.id = MsgIdDisconnect
       /\ InjectDisconnectAck("A")

SpecPickupFair ==
    /\ Init /\ [][NextPickup]_vars
    /\ WF_vars(AppProcessMessages("A"))
    /\ WF_vars(DisconnectEnd("A"))

(***************************************************************************)
(* Vocabulary of the properties.  Buffer k is what the k-th SendMessage    *)
(* call submitted; the peer B logs what its handler receives in handled.   *)
(***************************************************************************)
DatagramPacketID(dg) == dg.w1 * 64 + (dg.b0 % 64)

BufferOf(k) == Buffer(k, submitted[k].size)

\* The entries of B's handler log that are buffer k, byte for byte.
Deliveries(k) ==
    {i \in DOMAIN conn["B"].handled :
        /\ conn["B"].handled[i].id = AppMessageID
        /\ conn["B"].handled[i].data = BufferOf(k)}

\* The entries of B's handler log that hold bytes of buffer k.
PartialDeliveries(k) ==
    {i \in DOMAIN conn["B"].handled :
        \E x \in DOMAIN conn["B"].handled[i].data :
            conn["B"].handled[i].data[x][1] = k}

\* Datagram dg carries the bytes <<k, from, len>>.
CarriesBytes(dg, k, from, len) ==
    \E i \in DOMAIN dg.msgs : dg.msgs[i].content.data = <<<<k, from, len>>>>

Carries(dg, k) == CarriesBytes(dg, k, 0, submitted[k].size)

CarriesID(dg, id) ==
    \E i \in DOMAIN dg.msgs :
        dg.msgs[i].content.hasId /\ dg.msgs[i].content.id = id

Transmitted(k) == \E dg \in sent["A"] : Carries(dg, k)

\* B has parsed the whole of datagram dg.
ParsedByPeer(dg) == DatagramPacketID(dg) \in conn["B"].receivedPacketIDs

\* The pool objects of A in use that hold bytes of buffer k.
Holding(k) ==
    {p \in Ptr \ conn["A"].freePtrs :
        \E x \in DOMAIN conn["A"].heap[p].data :
            conn["A"].heap[p].data[x][1] = k}

InSendQueue(k) ==
    \E i \in DOMAIN conn["A"].outboundQueue :
        conn["A"].heap[conn["A"].outboundQueue[i]].data = BufferOf(k)

ReliableSubmissions == {k \in DOMAIN submitted : submitted[k].reliable}
UnreliableSubmissions == {k \in DOMAIN submitted : ~submitted[k].reliable}

\* C1: a reliable message is handed to the peer's handler at most once,
\* whatever the network loses, duplicates or reorders and whatever is
\* retransmitted.
C1_ReliableAtMostOnce ==
    \A k \in ReliableSubmissions : Cardinality(Deliveries(k)) <= 1

\* A reliable message arrived in two datagrams with different packet ids,
\* both parsed by the peer, and was handled once.
C1_Witness ==
    \E k \in ReliableSubmissions :
        /\ Cardinality(Deliveries(k)) = 1
        /\ \E d1, d2 \in sent["A"] :
              /\ DatagramPacketID(d1) # DatagramPacketID(d2)
              /\ Carries(d1, k) /\ Carries(d2, k)
              /\ ParsedByPeer(d1) /\ ParsedByPeer(d2)

C6_RTOWithinBounds ==
    \A c \in Conn :
        /\ conn[c].retransmissionTimeout >= minRTOTimeoutValue
        /\ conn[c].retransmissionTimeout <= maxRTOTimeoutValue
        /\ \A i \in DOMAIN conn[c].outboundPacketAckTrack :
              /\ conn[c].outboundPacketAckTrack[i].timeout >= minRTOTimeoutValue
              /\ conn[c].outboundPacketAckTrack[i].timeout <= maxRTOTimeoutValue

\* C7: the peer's handler receives the reliable messages in the order in
\* which they were submitted.
C7_ReliableInOrder ==
    \A i, j \in DOMAIN conn["B"].handled :
        (/\ i < j
         /\ conn["B"].handled[i].id = AppMessageID
         /\ conn["B"].handled[j].id = AppMessageID
         /\ conn["B"].handled[i].data # <<>>
         /\ conn["B"].handled[j].data # <<>>
         /\ conn["B"].handled[i].data[1][1] \in ReliableSubmissions
         /\ conn["B"].handled[j].data[1][1] \in ReliableSubmissions)
        => conn["B"].handled[i].data[1][1] < conn["B"].handled[j].data[1][1]

\* Submissions i and j carry the same (message id, content id) key, j later.
SameKeyLater(i, j) ==
    /\ i < j
    /\ submitted[i].contentID # 0
    /\ submitted[i].contentID = submitted[j].contentID

\* Buffer j has reached the send queue: it is queued there or already sent.
Accepted(j) == InSendQueue(j) \/ Transmitted(j)

\* Every copy of buffer k in the send queue is marked obsolete.
ObsoleteInSendQueue(k) ==
    \A x \in DOMAIN conn["A"].outboundQueue :
        conn["A"].heap[conn["A"].outboundQueue[x]].data = BufferOf(k)
        => conn["A"].heap[conn["A"].outboundQueue[x]].obsolete

\* No copy of buffer k in the send queue is marked obsolete.
LiveInSendQueue(k) ==
    \A x \in DOMAIN conn["A"].outboundQueue :
        conn["A"].heap[conn["A"].outboundQueue[x]].data = BufferOf(k)
        => ~conn["A"].heap[conn["A"].outboundQueue[x]].obsolete

\* No message later than j with j's key has reached the send queue.
LatestOfKey(j) ==
    \A l \in DOMAIN submitted : SameKeyLater(j, l) => ~Accepted(l)

\* C5: once a later message with the same non-zero content id has been
\* accepted into the send queue while the earlier one is not yet in any
\* datagram, the earlier one is marked obsolete and the later one (if it is
\* the latest of its key) is not, and no step puts the earlier one into a
\* datagram or hands it to the peer.
C5_ObsoleteNeverTransmitted ==
    [][\A i, j \in DOMAIN submitted :
          (SameKeyLater(i, j) /\ Accepted(j) /\ ~Transmitted(i))
          => /\ ObsoleteInSendQueue(i)
             /\ LatestOfKey(j) => LiveInSendQueue(j)
             /\ ~Transmitted(i)'
             /\ Deliveries(i)' = {}]_vars

\* Buffer k was submitted as a reliable message on an open connection, with
\* no content id by which a later message could replace it.
ReliablyHeld(k) ==
    /\ submitted[k].reliable
    /\ submitted[k].contentID = 0
    /\ submitted[k].state = "ConnectionOK"

\* C2: a reliable message that the sender has let go of (no queue, ack
\* track or transfer holds any of it any more) has been handed to the
\* peer's handler.
C2_ReleasedOnlyIfDelivered ==
    \A k \in DOMAIN submitted :
        (ReliablyHeld(k) /\ Holding(k) = {}) => PartialDeliveries(k) # {}

\* The fragments of a message of the given size, as <<from, len>>.
FragmentSlices(size) ==
    LET maxFragmentSize == MaxSendSize \div 4 - sendHeaderUpperBound
    IN {<<f * maxFragmentSize,
          Min(maxFragmentSize, size - f * maxFragmentSize)>> :
            f \in 0 .. NumFragments(size) - 1}

\* Every fragment of buffer k is in a datagram that the peer has parsed.
AllFragmentsReachedPeer(k) ==
    /\ NumFragments(submitted[k].size) > 0
    /\ \A fr \in FragmentSlices(submitted[k].size) :
          \E dg \in sent["A"] :
              CarriesBytes(dg, k, fr[1], fr[2]) /\ ParsedByPeer(dg)

\* C4: once all fragments of a message larger than a datagram have reached
\* the peer, its handler has received the message exactly once, byte for
\* byte.
C4_FragmentationTransparent ==
    \A k \in DOMAIN submitted :
        AllFragmentsReachedPeer(k) => Cardinality(Deliveries(k)) = 1

\* A datagram of c that carries the given message id has been sent.
MessageTransmitted(c, id) == \E dg \in sent[c] : CarriesID(dg, id)

\* A message with the given id waits in one of c's outbound queues.
MessageQueued(c, id) ==
    \/ \E x \in DOMAIN conn[c].outboundAcceptQueue :
          conn[c].heap[conn[c].outboundAcceptQueue[x]].id = id
    \/ \E x \in DOMAIN conn[c].outboundQueue :
          conn[c].heap[conn[c].outboundQueue[x]].id = id

\* C8: once Disconnect() has been called on an open connection, the
\* connection is eventually in state Disconnecting with its MsgIdDisconnect
\* message transmitted, whatever the interleaving of application and worker.
C8_DisconnectTransmitted ==
    (appPc["A"] = "setDisconnecting")
    ~> (/\ conn["A"].connectionState = "ConnectionDisconnecting"
        /\ MessageTransmitted("A", MsgIdDisconnect))

\* C9: the step in which a connection takes a MsgIdDisconnect and becomes
\* Disconnecting leaves a MsgIdDisconnectAck queued for, or sent to, the peer.
C9_DisconnectAckEnqueued ==
    [][(/\ conn["B"].connectionState # "ConnectionDisconnecting"
        /\ (conn["B"].connectionState)' = "ConnectionDisconnecting")
       => (\/ MessageQueued("B", MsgIdDisconnectAck)'
           \/ MessageTransmitted("B", MsgIdDisconnectAck)')]_vars

\* C10: the worker pass in which a Disconnecting connection reads a datagram
\* that carries a MsgIdDisconnectAck ends with the connection Closed.
C10_ClosedOnDisconnectAck ==
    [][(/\ conn["A"].connectionState = "ConnectionDisconnecting"
        /\ \E dg \in net["A"] :
              dg \notin (net["A"])' /\ CarriesID(dg, MsgIdDisconnectAck))
       => (conn["A"].connectionState)' = "ConnectionClosed"]_vars

\* Disconnect() has run to its end, its MsgIdDisconnect is still queued, the
\* peer's acknowledgement has been read and the connection is Closed.
C10_Witness ==
    /\ conn["A"].connectionState = "ConnectionClosed"
    /\ appPc["A"] = "idle"
    /\ MessageQueued("A", MsgIdDisconnect)
    /\ faults.inject >= 1
    /\ net["A"] = {}

\* The MsgIdDisconnect messages waiting in c's accept queue.
DisconnectsInAcceptQueue(c) ==
    {x \in DOMAIN conn[c].outboundAcceptQueue :
        conn[c].heap[conn[c].outboundAcceptQueue[x]].id = MsgIdDisconnect}

\* C11: however often Disconnect() is called and however the socket changes
\* in between, no step enqueues a MsgIdDisconnect message while an earlier
\* one is still queued or has already been transmitted.
C11_AtMostOneDisconnect ==
    [][\A c \in Conn :
          Cardinality(DisconnectsInAcceptQueue(c))'
              > Cardinality(DisconnectsInAcceptQueue(c))
          => /\ ~MessageQueued(c, MsgIdDisconnect)
             /\ ~MessageTransmitted(c, MsgIdDisconnect)]_vars

\* C12: a connection that is Closed stays Closed, whatever step the
\* application thread or the worker thread takes next.
C12_ClosedIsTerminal ==
    [][\A c \in Conn :
          conn[c].connectionState = "ConnectionClosed"
          => (conn[c].connectionState)' = "ConnectionClosed"]_vars

\* C13: under a worker that keeps running, a connection that is not Closed
\* and has heard nothing from its peer for connectionLostTimeout becomes
\* Closed.
C13_SilentConnectionCloses ==
    \A st \in {"ConnectionPending", "ConnectionOK", "ConnectionDisconnecting",
               "ConnectionPeerClosed"} :
        (conn["A"].silent /\ conn["A"].connectionState = st)
        ~> (conn["A"].connectionState = "ConnectionClosed")

\* The ids a MsgIdPacketAck message names, as its receiver decodes them.
AckedIDs(ctl) ==
    LET packetID == ctl[1] + ctl[2] * 256
    IN {packetID} \cup {AddPacketID(packetID, 1 + i) :
                            i \in {j \in 0 .. 31 : SequenceBit(ctl[3], j)}}

\* The MsgIdPacketAck messages connection c has built: those waiting in its
\* send queue and those it has sent.
AcksBuilt(c) ==
    {conn[c].heap[conn[c].outboundQueue[x]].ctl :
        x \in {y \in DOMAIN conn[c].outboundQueue :
                  conn[c].heap[conn[c].outboundQueue[y]].id = MsgIdPacketAck}}
    \cup UNION {{dg.msgs[x].content.ctl :
                    x \in {y \in DOMAIN dg.msgs :
                              dg.msgs[y].content.id = MsgIdPacketAck}} :
                dg \in sent[c]}

\* C14: every MsgIdPacketAck message a step builds names at most 33 packet
\* ids, each of them was pending before the step and is pending no longer
\* after it, and no id is named by two messages of the step.
C14_AckCoalescing ==
    [][\A ctl \in AcksBuilt("B")' \ AcksBuilt("B") :
          /\ Cardinality(AckedIDs(ctl)) <= 33
          /\ AckedIDs(ctl) \subseteq conn["B"].inboundPacketAckTrack
          /\ AckedIDs(ctl) \cap (conn["B"].inboundPacketAckTrack)' = {}
          /\ \A other \in (AcksBuilt("B")' \ AcksBuilt("B")) \ {ctl} :
                AckedIDs(ctl) \cap AckedIDs(other) = {}]_vars

\* More than 33 ids were pending, the last packet id before the wrap among
\* them: a message with 33 ids and a second message have been built and sent.
C14_Witness ==
    /\ conn["B"].inboundPacketAckTrack = {}
    /\ Cardinality(AcksBuilt("B")) >= 2
    /\ \E ctl \in AcksBuilt("B") :
          /\ Cardinality(AckedIDs(ctl)) = 33
          /\ PacketIDModulus - 1 \in AckedIDs(ctl)
    /\ \E dg \in sent["B"] : CarriesID(dg, MsgIdPacketAck)

\* The MsgIdPacketAck messages waiting in the send queue of s.
AcksQueuedIn(s) ==
    {s.heap[s.outboundQueue[x]].ctl :
        x \in {y \in DOMAIN s.outboundQueue :
                  s.heap[s.outboundQueue[y]].id = MsgIdPacketAck}}

\* What the timers of UpdateConnection read when no ping is due and the
\* update tick has passed.
UpdateInputs(s) ==
    [pingDue |-> FALSE, lastHeardExpired |-> s.silent, ackDue |-> AckIsDue(s),
     expired |-> 0, rtt |-> 50, read |-> FALSE, dg |-> NoDatagram, sends |-> 0]
    @@ NoFaultInputs

\* C15: whenever a pending ack entry was received at least maxAckDelay ago,
\* or at least 33 entries are pending, the connection update that runs next
\* builds MsgIdPacketAck messages that cover every such entry.
C15_AckWithinMaxAckDelay ==
    \A c \in Conn :
        (/\ conn[c].connectionState = "ConnectionOK"
         /\ PoolSuffices(conn[c], UpdateInputs(conn[c]))
         /\ \/ conn[c].ackOverdue # {}
            \/ Cardinality(conn[c].inboundPacketAckTrack) >= 33)
        => \E u \in {UpdateConnectionOp(conn[c], UpdateInputs(conn[c]))} :
              \A id \in IF Cardinality(conn[c].inboundPacketAckTrack) >= 33
                        THEN conn[c].inboundPacketAckTrack
                        ELSE conn[c].ackOverdue :
                 \E ctl \in AcksQueuedIn(u) \ AcksQueuedIn(conn[c]) :
                    id \in AckedIDs(ctl)

\* The packet ids of the ack tracks of connection c, in the order of the walk
\* of ProcessPacketTimeouts.
TrackIDs(c) ==
    [i \in DOMAIN conn[c].outboundPacketAckTrack |->
        conn[c].outboundPacketAckTrack[i].packetID]

\* The ids the MsgIdPacketAck messages of datagram dg name.
AckedBy(dg) ==
    UNION {AckedIDs(dg.msgs[i].content.ctl) :
              i \in {j \in DOMAIN dg.msgs :
                        dg.msgs[j].content.id = MsgIdPacketAck}}

\* Successfully sent datagrams carry consecutive packet ids modulo 2^22.
WrapConsecutiveIDs ==
    {DatagramPacketID(dg) : dg \in sent["A"]}
        = {AddPacketID(PacketIDModulus - 1, i) :
              i \in 0 .. Cardinality(sent["A"]) - 1}

\* The walk of the ack tracker meets the tracks in the order they were sent.
WrapTracksInSendOrder ==
    \A i, j \in DOMAIN TrackIDs("A") :
        i < j => (TrackIDs("A")[j] - TrackIDs("A")[i]) % PacketIDModulus
                     \in 1 .. (PacketIDModulus \div 2)

\* In a step without a timeout, the tracks A frees are those of the packet
\* ids the acks it reads name.
WrapAckFreesItsTrack ==
    faults' = faults
    => \A id \in Range(TrackIDs("A")) :
          id \notin Range(TrackIDs("A")')
          <=> \E dg \in net["A"] \ net'["A"] : id \in AckedBy(dg)

\* A datagram of A that B reads is parsed: the application messages it
\* carries have been handed to the application of B.
WrapFreshDatagramParsed ==
    \A dg \in net["B"] \ net'["B"] :
        \A k \in DOMAIN submitted : Carries(dg, k) => (Deliveries(k) # {})'

\* C16: across the wrap of the packet id from 2^22 - 1 to 0 the datagrams
\* sent carry consecutive ids, an ack frees exactly the tracks of the ids it
\* names, a datagram B reads is not rejected as a duplicate of one of the
\* round before, and the ack tracks stay in send order.
C16_PacketIDWrap ==
    [][/\ WrapConsecutiveIDs'
       /\ WrapTracksInSendOrder'
       /\ WrapAckFreesItsTrack
       /\ WrapFreshDatagramParsed]_vars

\* C17: a SendMessage call that finds outboundAcceptQueue full logs a
\* critical line exactly if the message is reliable, hands every pool object
\* it took back to the pool, and leaves the queue and the messages in it as
\* they were.
C17_FullAcceptQueue ==
    [][(/\ Len(submitted') = Len(submitted) + 1
        /\ ~AcceptQueueHasRoom(conn["A"]))
       => /\ (conn["A"].criticalLog' # conn["A"].criticalLog)
                 <=> submitted'[Len(submitted')].reliable
          /\ conn["A"].freePtrs' = conn["A"].freePtrs
          /\ conn["A"].outboundAcceptQueue' = conn["A"].outboundAcceptQueue
          /\ \A x \in DOMAIN conn["A"].outboundAcceptQueue :
                conn["A"].heap'[conn["A"].outboundAcceptQueue[x]]
                    = conn["A"].heap[conn["A"].outboundAcceptQueue[x]]]_vars

\* Messages i and j were both submitted during one pause of the outbound
\* sends, j after i and with i's key.
SamePause(i, j) ==
    /\ SameKeyLater(i, j)
    /\ submitted[i].pause # 0
    /\ submitted[i].pause = submitted[j].pause

\* The sends are resumed and everything A queued has been worked off and
\* read by B.
Drained ==
    /\ ~conn["A"].bOutboundSendsPaused
    /\ conn["A"].outboundAcceptQueue = <<>>
    /\ conn["A"].outboundQueue = <<>>
    /\ net["B"] = {}

\* C18: while the outbound sends are paused a SendMessage call adds its
\* message to the accept queue and no step sends a datagram; once the sends
\* are resumed and the queues worked off, of two messages of one key that
\* were submitted during the pause the earlier has not been transmitted, and
\* the later, if no message of its key was submitted after it, has been
\* transmitted and handed to the application of B exactly once.
C18_PauseAndResume ==
    [][/\ conn["A"].bOutboundSendsPaused
          => /\ sent'["A"] = sent["A"]
             /\ Len(submitted') > Len(submitted)
                => Len(conn["A"].outboundAcceptQueue')
                       = Len(conn["A"].outboundAcceptQueue) + 1
       /\ Drained'
          => \A i, j \in DOMAIN submitted' :
                SamePause(i, j)'
                => /\ ~Transmitted(i)'
                   /\ LatestOfKey(j)'
                      => /\ Transmitted(j)'
                         /\ Cardinality(Deliveries(j)') = 1]_vars

\* C19: no step changes the connection state of B, whatever it reads, and
\* whenever B has parsed a datagram as A sent it, the application messages
\* that datagram carries have been handed to the application of B.
C19_ParseErrorIsLocal ==
    [][/\ conn["B"].connectionState' = conn["B"].connectionState
       /\ \A dg \in sent["A"] :
             ParsedByPeer(dg)'
             => \A k \in DOMAIN submitted :
                   Carries(dg, k) => (Deliveries(k) # {})']_vars

\* The last call of HandleInboundMessage at B with a message of the
\* application.
LastHandled == conn["B"].handled[Len(conn["B"].handled)]

\* The key the handler of B computes for the entry e of the log.
StampKey(e) == <<e.id, ComputeContentID(e.id, [data |-> e.data])>>

\* The entry e of the log is acceptable by the stamps of s.
Acceptable(s, e) ==
    \/ StampKey(e) \notin DOMAIN s.inboundContentIDStamps
    \/ PacketIDIsNewerThan(e.packetID, s.inboundContentIDStamps[StampKey(e)])
    \/ StampKey(e) \in s.staleStamps

\* C20: a step in which B handles one application message with a non-zero
\* content id puts it on the inbound queue and stores its packet id as the
\* stamp of its key exactly if no stamp was stored for the key, or its packet
\* id is newer than the stored one, or the stored stamp was more than 5 s
\* old; otherwise the queue and the stamps stay as they were.
C20_InboundContentIDFilter ==
    [][(/\ Len(conn["B"].handled') = Len(conn["B"].handled) + 1
        /\ StampKey(LastHandled')[2] # 0)
       => IF Acceptable(conn["B"], LastHandled')
          THEN /\ conn["B"].inboundMessageQueue'
                     = Append(conn["B"].inboundMessageQueue,
                              [id |-> LastHandled'.id, data |-> LastHandled'.data])
               /\ conn["B"].inboundContentIDStamps'[StampKey(LastHandled')]
                     = LastHandled'.packetID
          ELSE /\ conn["B"].inboundMessageQueue' = conn["B"].inboundMessageQueue
               /\ conn["B"].inboundContentIDStamps' = conn["B"].inboundContentIDStamps]_vars

\* B has handled three messages of one key in the order of the packet ids 2,
\* 1, 0: the second was rejected, the third accepted after the stamp had
\* grown old.
C20_Witness ==
    /\ Len(conn["B"].handled) = 3
    /\ \A i \in 1 .. 3 : conn["B"].handled[i].packetID = 3 - i
    /\ \A i \in 1 .. 3 : StampKey(conn["B"].handled[i]) = <<AppMessageID, AppContentID>>
    /\ Len(conn["B"].inboundMessageQueue) = 2
    /\ conn["B"].inboundContentIDStamps[<<AppMessageID, AppContentID>>] = 0

\* The fragments in the send queue of A whose transfer has no id yet.
WaitingForTransferID(s) ==
    {p \in Range(s.outboundQueue) :
        /\ ~s.heap[p].obsolete
        /\ s.heap[p].transfer # NoTransfer
        /\ s.fragmentedSends[s.heap[p].transfer].id = -1}

\* Datagram dg carries what pool object p of connection s holds.
CarriesObject(dg, s, p) ==
    /\ dg # NoDatagram
    /\ \E i \in DOMAIN dg.msgs : dg.msgs[i].content.data = WireData(s.heap[p])

\* C21: running out of transfer ids throttles.  Whenever SendOutPacket runs
\* with fragments in the send queue whose transfer has no id: if none of the
\* 256 ids is free, every such fragment is in the send queue again after the
\* call, is not freed and is not in the datagram, while every other message
\* of the queue is in the datagram; if an id is free, the first such
\* fragment is in the datagram and its transfer has an id.
C21_TransferIDThrottle ==
    LET s == conn["A"]
        waiting == WaitingForTransferID(s)
        first == s.outboundQueue[MinOf({i \in DOMAIN s.outboundQueue :
                                           s.outboundQueue[i] \in waiting})]
        r == SendOutPacket(s, TRUE, TRUE)
    IN (waiting # {} /\ s.socketWriteOpen /\ ~s.bOutboundSendsPaused) =>
          IF FreeTransferIDs(s) = {}
          THEN /\ r.result = "PacketSendOK"
               /\ waiting \subseteq Range(r.s.outboundQueue)
               /\ waiting \cap r.s.freePtrs = {}
               /\ \A p \in waiting : ~CarriesObject(r.dg, s, p)
               /\ \A p \in Range(s.outboundQueue) \ waiting :
                     s.heap[p].obsolete \/ CarriesObject(r.dg, s, p)
          ELSE /\ r.result = "PacketSendOK"
               /\ CarriesObject(r.dg, s, first)
               /\ r.s.fragmentedSends[s.heap[first].transfer].id \in FreeTransferIDs(s)

\* The large message was submitted first; the small one left alone in a
\* datagram while the fragments waited for an id, and a fragment left in a
\* later one.
C21_Witness ==
    /\ Len(submitted) = 2
    /\ submitted[1].size = LargeSize
    /\ \E small \in sent["A"], frag \in sent["A"] :
          /\ Carries(small, 2)
          /\ Len(small.msgs) = 1
          /\ \E i \in DOMAIN frag.msgs : frag.msgs[i].content.data[1][1] = 1
          /\ DatagramPacketID(frag) > DatagramPacketID(small)

\* What the timers of UpdateConnection read when the ping timer has gone off.
PingInputs(s) ==
    [pingDue |-> TRUE, lastHeardExpired |-> s.silent] @@ UpdateInputs(s)

\* What ReadSocket reads when datagram dg waits in the socket.
ReadInputs(s, dg) == [read |-> TRUE, dg |-> dg] @@ UpdateInputs(s)

PingsQueuedIn(s, id, ctl) ==
    {p \in Range(s.outboundQueue) : s.heap[p].id = id /\ s.heap[p].ctl = ctl}

\* C22: no spurious liveness timeout.  For a connection in state OK: a
\* datagram that arrives is read with the effect that the last-heard time is
\* not older than connectionLostTimeout, so that the ping timer going off
\* next leaves the connection in state OK, and every MsgIdPingRequest in the
\* datagram has a MsgIdPingReply with the same ping id in the send queue;
\* the ping timer going off queues a MsgIdPingRequest with the next ping id.
C22_NoSpuriousTimeout ==
    \A c \in Conn :
        LET s == conn[c]
        IN (s.connectionState = "ConnectionOK" /\ s.socketReadOpen) =>
              /\ \A dg \in net[c] :
                    PoolSuffices(s, ReadInputs(s, dg)) =>
                       \E r \in {ReadSocketOp(s, dg, ReadInputs(s, dg))} :
                          /\ ~r.silent
                          /\ PingAndDetectTimeout(r, PingInputs(r)).connectionState
                                 = r.connectionState
                          /\ \A i \in DOMAIN dg.msgs :
                                (/\ dg.msgs[i].content.hasId
                                 /\ dg.msgs[i].content.id = MsgIdPingRequest)
                                => PingsQueuedIn(r, MsgIdPingReply,
                                                 dg.msgs[i].content.ctl) # {}
              /\ (~s.silent /\ ~s.bOutboundSendsPaused
                  /\ PoolSuffices(s, PingInputs(s))) =>
                    \E u \in {UpdateConnectionOp(s, PingInputs(s))} :
                       PingsQueuedIn(u, MsgIdPingRequest,
                                     <<(s.lastPingID + 1) % 256>>) # {}

\* The messages of the send queue of s that are not obsolete.
LiveInQueue(s) == {p \in Range(s.outboundQueue) : ~s.heap[p].obsolete}

TracksOf(s, id) ==
    {i \in DOMAIN s.outboundPacketAckTrack : s.outboundPacketAckTrack[i].packetID = id}

\* C24: after a successful send an ack track keyed by the datagram's packet
\* id exists iff the datagram carried a reliable message; the track owns
\* exactly the reliable messages of the datagram, none of them freed, and
\* the unreliable messages of the datagram are freed.
C24_TrackIffReliable ==
    LET s == conn["A"]
        r == SendOutPacket(s, TRUE, TRUE)
        id == s.datagramPacketIDCounter
        selected == LiveInQueue(s) \ Range(r.s.outboundQueue)
        reliable == {p \in selected : s.heap[p].reliable}
    IN (s.outboundQueue # <<>> /\ s.socketWriteOpen /\ ~s.bOutboundSendsPaused
        /\ TracksOf(s, id) = {}) =>
          /\ r.result = "PacketSendOK"
          /\ DatagramPacketID(r.dg) = id
          /\ \A p \in selected : CarriesObject(r.dg, s, p)
          /\ Len(r.dg.msgs) = Cardinality(selected)
          /\ (r.dg.b0 \div 64) % 2 = (IF reliable # {} THEN 1 ELSE 0)
          /\ (reliable # {}) <=> (TracksOf(r.s, id) # {})
          /\ \A i \in TracksOf(r.s, id) :
                /\ Range(r.s.outboundPacketAckTrack[i].messages) = reliable
                /\ Len(r.s.outboundPacketAckTrack[i].messages) = Cardinality(reliable)
          /\ Cardinality(TracksOf(r.s, id)) <= 1
          /\ reliable \cap r.s.freePtrs = {}
          /\ (selected \ reliable) \subseteq r.s.freePtrs

\* A datagram of A carried a reliable and an unreliable message: its track
\* holds one message, and the other object is free again.
C24_Witness ==
    \E dg \in sent["A"] :
        /\ Len(dg.msgs) = 2
        /\ \E i, j \in DOMAIN dg.msgs :
              MessageReliable(dg.msgs[i]) /\ ~MessageReliable(dg.msgs[j])
        /\ \E i \in TracksOf(conn["A"], DatagramPacketID(dg)) :
              /\ Len(conn["A"].outboundPacketAckTrack[i].messages) = 1
              /\ Cardinality(conn["A"].freePtrs) = PoolSize - 1

\* C25: retransmission on timeout.  Whenever ProcessPacketTimeouts runs,
\* every ack track whose timeout tick is not newer than now is gone from the
\* ack tracker after the call and its messages are in the send queue, also
\* for tracks that were sent under different retransmission timeouts.
C25_ExpiredTracksRequeued ==
    LET s == conn["A"]
        r == ProcessPacketTimeouts(s, 0)
    IN \A i \in DOMAIN s.outboundPacketAckTrack :
          TimedOut(s.outboundPacketAckTrack[i]) =>
             /\ TracksOf(r, s.outboundPacketAckTrack[i].packetID) = {}
             /\ Range(s.outboundPacketAckTrack[i].messages)
                    \subseteq Range(r.outboundQueue)

\* The ack messages SendPacketAckMessage builds for the pending set, each as
\* the set of ids it erases from the set for that message.
RECURSIVE ErasedPerMessage(_)
ErasedPerMessage(pending) ==
    IF pending = {} THEN {}
    ELSE LET erased == AckedWith(MinOf(pending), pending)
         IN {erased} \cup ErasedPerMessage(pending \ erased)

\* The packet ids around those of a pending set.
IdsAround(pending) ==
    UNION {{AddPacketID(id, j) : j \in 0 .. 33} : id \in pending}

\* One track without messages for every id of ids, in the order of the ids.
TracksOfIds(ids) ==
    [k \in 1 .. Cardinality(ids) |->
        [packetID |-> CHOOSE x \in ids :
                          Cardinality({y \in ids : y < x}) = k - 1,
         sendCount |-> 1,
         timeout |-> initialRetransmissionTimeout,
         datagramSendRate |-> initialDatagramSendRate,
         messages |-> <<>>]]

\* The ids whose tracks HandlePacketAckMessage frees for the payload ctl, on
\* a sender that holds a track for every id of ids.
FreedBy(ctl, ids) ==
    \* the sender's tracks, then the handler on them
    LET probe == [InitConnection("ConnectionOK") EXCEPT
                     !.outboundPacketAckTrack = TracksOfIds(ids)]
        r == HandlePacketAckMessage(probe, ctl, 7, 50)
    IN ids \ {r.outboundPacketAckTrack[i].packetID :
                 i \in DOMAIN r.outboundPacketAckTrack}

\* The payloads of the MsgIdPacketAck messages in the send queue of s.
AckPayloadsIn(s) ==
    {s.heap[p].ctl : p \in {q \in Range(s.outboundQueue) :
                               s.heap[q].id = MsgIdPacketAck}}

\* C26: the ack round trip.  For the pending set of a connection, the sets
\* of packet ids that HandlePacketAckMessage frees for the 7-byte payloads
\* SendPacketAckMessage writes are the sets of ids SendPacketAckMessage
\* erased from the pending set, message by message.
C26_AckRoundTrip ==
    \A c \in Conn :
        LET s == conn[c]
            pending == s.inboundPacketAckTrack
        IN (/\ pending # {}
            /\ s.connectionState = "ConnectionOK"
            /\ Cardinality(s.freePtrs) >= AckMessagesNeeded(pending)) =>
              \E r \in {SendPacketAckMessage(s)} :
                 {FreedBy(ctl, IdsAround(pending)) :
                     ctl \in AckPayloadsIn(r) \ AckPayloadsIn(s)}
                 = ErasedPerMessage(pending)

\* B has built an ack whose base id lies before the wrap of the packet ids
\* and whose bit 31 is set, and nothing is pending any more.
C26_Witness ==
    /\ conn["B"].inboundPacketAckTrack = {}
    /\ \E ctl \in AcksBuilt("B") :
          /\ ctl[2] = (PacketIDModulus - 33) \div 256
          /\ SequenceBit(ctl[3], 31)
          /\ PacketIDModulus - 1 \in AckedIDs(ctl)

\* The payloads of the MsgIdPacketAck messages that are in the send queue of
\* s1 and were not in that of s0, or are in a datagram of dgs1 \ dgs0.
NewAckPayloads(s0, s1, dgs0, dgs1) ==
    {s1.heap[p].ctl :
        p \in {q \in Range(s1.outboundQueue) :
                  /\ s1.heap[q].id = MsgIdPacketAck
                  /\ \A o \in Range(s0.outboundQueue) :
                        s0.heap[o].messageNumber # s1.heap[q].messageNumber}}
    \cup UNION {{dg.msgs[x].content.ctl :
                    x \in {y \in DOMAIN dg.msgs :
                              dg.msgs[y].content.id = MsgIdPacketAck}} :
                dg \in dgs1 \ dgs0}

\* C27: a pending packet id leaves the pending-ack set of a connection that
\* still reads datagrams only in a step that builds a MsgIdPacketAck message
\* naming it, and that message is queued for sending or sent.
C27_PendingIdsAcknowledged ==
    [][\A c \in Conn :
          (/\ conn[c].connectionState # "ConnectionClosed"
           /\ (conn[c].connectionState)' # "ConnectionClosed") =>
             \A id \in conn[c].inboundPacketAckTrack
                          \ (conn[c].inboundPacketAckTrack)' :
                \E ctl \in NewAckPayloads(conn[c], conn[c]', sent[c], sent[c]') :
                   id \in AckedIDs(ctl)]_vars

\* The payloads of the MsgIdPacketAck messages among the datagrams dgs.
AckPayloadsOf(dgs) ==
    UNION {{dg.msgs[x].content.ctl :
               x \in {y \in DOMAIN dg.msgs :
                         dg.msgs[y].content.id = MsgIdPacketAck}} : dg \in dgs}

\* The tracks of s whose packet id the payload ctl names.
TracksNamed(s, ctl) ==
    {i \in DOMAIN s.outboundPacketAckTrack :
        s.outboundPacketAckTrack[i].packetID \in AckedIDs(ctl)}

\* C28: for every ack the peer has sent, HandlePacketAckMessage removes the
\* tracks of the ids the ack names and no other, and frees the messages of
\* those tracks, none of which was free before and none of which is in two
\* of them; handling the same ack again changes nothing, and so does an ack
\* that names no id with a track.
C28_AckHandlingIdempotent ==
    \A c \in Conn : \A ctl \in AckPayloadsOf(sent[Peer(c)]) :
        LET s == conn[c]
            named == TracksNamed(s, ctl)
            released == UNION {Range(s.outboundPacketAckTrack[i].messages) :
                                  i \in named}
        IN \E r \in {HandlePacketAckMessage(s, ctl, 7, 50)} :
              /\ HandlePacketAckMessage(r, ctl, 7, 50) = r
              /\ named = {} => r = s
              /\ r.outboundPacketAckTrack =
                    SelectSeq(s.outboundPacketAckTrack,
                              LAMBDA track : track.packetID \notin AckedIDs(ctl))
              /\ released \cap s.freePtrs = {}
              /\ r.freePtrs = s.freePtrs \cup released
              /\ \A i, j \in named :
                    i # j => Range(s.outboundPacketAckTrack[i].messages)
                               \cap Range(s.outboundPacketAckTrack[j].messages) = {}

\* An ack of B on its way to A names a packet whose track A holds with a
\* message in it, and an ack B sent earlier names only packets whose tracks
\* A holds no longer while A waits for the ack of another packet.
C28_Witness ==
    /\ \E ctl \in AckPayloadsOf(net["A"]) :
          \E i \in TracksNamed(conn["A"], ctl) :
             conn["A"].outboundPacketAckTrack[i].messages # <<>>
    /\ \E ctl \in AckPayloadsOf(sent["B"]) : TracksNamed(conn["A"], ctl) = {}

\* C29: every datagram SendOutPacket has handed to the socket is at most
\* MaxSendSize bytes long: header, reliable base number and all messages.
C29_DatagramFitsSocket ==
    \A c \in Conn : \A dg \in sent[c] : DatagramWireSize(dg) <= MaxSendSize

\* The pacing slot of connection c after the step, in ticks.
SlotAfter(c) == DatagramSendTickDelay(conn[c]')

\* Connection c sends a datagram in the step.
SendsDatagram(c) ==
    (conn[c].datagramPacketIDCounter)' # conn[c].datagramPacketIDCounter

\* C30: a step that sends a datagram moves lastDatagramSendTime one slot on
\* when it was at most twenty slots behind the clock, and sets it to the
\* clock when it was more than twenty slots behind.
C30_PacingSlotRule ==
    [][\A c \in Conn : SendsDatagram(c) =>
          IF conn[c].ticksSinceDatagramSend <= 20 * SlotAfter(c)
          THEN (conn[c].ticksSinceDatagramSend)'
                  = conn[c].ticksSinceDatagramSend - SlotAfter(c)
          ELSE (conn[c].ticksSinceDatagramSend)' = 0]_vars

\* C30, amended: a step that sends a datagram moves lastDatagramSendTime one
\* slot on when it was less than twenty slots behind the clock, and sets it
\* to the clock when it was twenty slots or more behind.
C30_PacingSlotRuleAmended ==
    [][\A c \in Conn : SendsDatagram(c) =>
          IF conn[c].ticksSinceDatagramSend \div SlotAfter(c) < 20
          THEN (conn[c].ticksSinceDatagramSend)'
                  = conn[c].ticksSinceDatagramSend - SlotAfter(c)
          ELSE (conn[c].ticksSinceDatagramSend)' = 0]_vars

\* A has sent its first datagram, twenty slots or more behind the clock (a
\* send less than twenty slots behind leaves lastDatagramSendTime more than
\* MinLagSlots - 2 slots behind): lastDatagramSendTime is the clock's tick.
C30_Witness ==
    /\ conn["A"].datagramPacketIDCounter = 1
    /\ sent["A"] # {}
    /\ conn["A"].ticksSinceDatagramSend = 0

\* C31: whatever number of frames the clock shows to have passed since
\* lastFrameTime, HandleFlowControl leaves datagramSendRate at 1 datagram/s
\* or more, and a frame without more than five losses leaves it at 50 or less.
C31_DatagramRateBounds ==
    \A c \in Conn : \A numFrames \in 1 .. 100 :
        \E r \in {HandleFlowControl(conn[c], numFrames)} :
           /\ r.datagramSendRate >= 1000
           /\ conn[c].numLossesLastFrame <= 5 => r.datagramSendRate <= 50000

\* The messages of datagram dg that ExtractMessages hands to the inbound
\* queue of s: not fragments, not seen before, and of an application id.
QueueableIn(s, dg) ==
    {i \in DOMAIN dg.msgs :
        /\ dg.msgs[i].hdr \div 16384 = 0
        /\ dg.msgs[i].content.hasId
        /\ dg.msgs[i].content.id \notin
              {MsgIdPingRequest, MsgIdPingReply, MsgIdFlowControlRequest,
               MsgIdPacketAck, MsgIdDisconnect, MsgIdDisconnectAck}
        /\ ~DuplicateMessage(s, MessageReliable(dg.msgs[i]),
                             dg.base + dg.msgs[i].delta)}

\* C32: a datagram that arrives when the inbound queue has fewer than 64
\* free places changes nothing, not even the pending acks; any other
\* well-formed datagram with a new packet id puts every application message
\* it carries that is not a duplicate on the inbound queue.
C32_NoPartialApplication ==
    \A c \in Conn : \A dg \in net[c] :
        LET s == conn[c]
        IN (/\ s.connectionState = "ConnectionOK"
            /\ \A i \in DOMAIN dg.msgs : ~Malformed(dg.msgs[i])) =>
              \E r \in {ExtractMessages(s, dg, ReadInputs(s, dg))} :
                 IF InboundQueueCapacity - InboundQueueSize(s) < MinInboundCapacityLeft
                 THEN r = s
                 ELSE dg.w1 * 64 + (dg.b0 % 64) \notin s.receivedPacketIDs =>
                         InboundQueueSize(r) - InboundQueueSize(s)
                            >= Cardinality(QueueableIn(s, dg))

\* The payloads of the messages ps of s, one after the other.
RECURSIVE PayloadsOf(_, _)
PayloadsOf(s, ps) ==
    IF ps = <<>> THEN <<>> ELSE s.heap[ps[1]].data \o PayloadsOf(s, Tail(ps))

\* The message the application submits in this step.
SubmittedInStep == submitted'[Len(submitted')]

\* What the step has appended to the accept queue of A.
AcceptedInStep ==
    SubSeq(conn["A"].outboundAcceptQueue', Len(conn["A"].outboundAcceptQueue) + 1,
           Len(conn["A"].outboundAcceptQueue'))

\* C33: a step that submits a message of more than MaxSendSize - 32 bytes
\* appends ceil(size / F) fragments to the accept queue, F = MaxSendSize/4
\* - 32: their indices are 0, 1, ... in order, each has at most F bytes,
\* their payloads one after the other are the payload submitted, each is
\* reliable, belongs to one and the same transfer, has the id, in-order
\* flag, priority and content id of the message, and has the next unused
\* message number.  A smaller message is appended whole.
C33_SplitIntoFragments ==
    [][Len(submitted') = Len(submitted) + 1 =>
          LET F == MaxSendSize \div 4 - sendHeaderUpperBound
              n == (SubmittedInStep.size + F - 1) \div F
              s == conn["A"]'
              Of(i) == s.heap[AcceptedInStep[i]]
          IN IF SubmittedInStep.size + sendHeaderUpperBound > MaxSendSize
             THEN /\ Len(AcceptedInStep) = n
                  /\ Normalize(PayloadsOf(s, AcceptedInStep))
                        = Buffer(Len(submitted'), SubmittedInStep.size)
                  /\ s.outboundMessageNumberCounter
                        = conn["A"].outboundMessageNumberCounter + n
                  /\ \A i \in 1 .. n :
                        /\ AcceptedInStep[i] \notin s.freePtrs
                        /\ Of(i).fragmentIndex = i - 1
                        /\ Of(i).dataSize <= F
                        /\ Of(i).dataSize = BytesOf(Of(i).data)
                        /\ Of(i).reliable
                        /\ Of(i).transfer # NoTransfer
                        /\ Of(i).transfer = Of(1).transfer
                        /\ s.fragmentedSends[Of(i).transfer].totalNumFragments = n
                        /\ Of(i).id = AppMessageID
                        /\ Of(i).inOrder = SubmittedInStep.reliable
                        /\ Of(i).priority = AppPriority
                        /\ Of(i).contentID = SubmittedInStep.contentID
                        /\ Of(i).messageNumber
                              = conn["A"].outboundMessageNumberCounter + i - 1
             ELSE /\ Len(AcceptedInStep) = 1
                  /\ s.heap[AcceptedInStep[1]].transfer = NoTransfer
                  /\ s.heap[AcceptedInStep[1]].data
                        = Buffer(Len(submitted'), SubmittedInStep.size)]_vars

\* The accept queue of A holds the five fragments of a message that was
\* submitted as unreliable, with a content id and of the smallest size that
\* is split; all five are reliable.
C33_Witness ==
    /\ Len(submitted) = 1
    /\ ~submitted[1].reliable
    /\ submitted[1].contentID = AppContentID
    /\ submitted[1].size = MaxSendSize - sendHeaderUpperBound + 1
    /\ Len(conn["A"].outboundAcceptQueue) = 5
    /\ \A i \in 1 .. 5 :
          /\ conn["A"].heap[conn["A"].outboundAcceptQueue[i]].reliable
          /\ conn["A"].heap[conn["A"].outboundAcceptQueue[i]].fragmentIndex = i - 1

\* The reassembly buffers of B that hold bytes of buffer k.
ReassemblyBuffers(k) ==
    {t \in DOMAIN conn["B"].fragmentedReceives :
        \E f \in DOMAIN conn["B"].fragmentedReceives[t].fragments :
            \E x \in DOMAIN conn["B"].fragmentedReceives[t].fragments[f].data :
                conn["B"].fragmentedReceives[t].fragments[f].data[x][1] = k}

\* C34: reassembly completes on the last fragment to arrive, whichever it is.
\* Once the receiver has parsed datagrams that hold every fragment of a
\* transfer, in whatever order they came and also when the fragment-start
\* came after other fragments, the handler log holds the whole message once
\* and no reassembly buffer of the transfer is left.
C34_ReassemblyCompletes ==
    \A k \in DOMAIN submitted :
        AllFragmentsReachedPeer(k)
        => /\ Cardinality(Deliveries(k)) = 1
           /\ ReassemblyBuffers(k) = {}

\* C35: socket closure drives the connection state.  Under a worker that
\* keeps running, a connection that is ConnectionOK with its socket closed
\* for reading becomes ConnectionPeerClosed, with or without messages in its
\* inbound queue, and a connection whose socket is closed for reading and
\* for writing becomes ConnectionClosed.
C35_SocketClosureDrivesState ==
    /\ (conn["A"].connectionState = "ConnectionOK" /\ ~conn["A"].socketReadOpen)
       ~> (conn["A"].connectionState = "ConnectionPeerClosed")
    /\ (~conn["A"].socketReadOpen /\ ~conn["A"].socketWriteOpen)
       ~> (conn["A"].connectionState = "ConnectionClosed")

\* The outbound messages of c that have a message number and are not freed:
\* those in the accept queue, in the send queue and in a PacketAckTrack.
NumberedMessages(c) ==
    {conn[c].outboundAcceptQueue[i] : i \in DOMAIN conn[c].outboundAcceptQueue}
    \cup {conn[c].outboundQueue[i] : i \in DOMAIN conn[c].outboundQueue}
    \cup UNION {{conn[c].outboundPacketAckTrack[t].messages[i] :
                    i \in DOMAIN conn[c].outboundPacketAckTrack[t].messages} :
                t \in DOMAIN conn[c].outboundPacketAckTrack}

\* C36: message numbers are unique per connection.  Whatever the
\* interleaving of the application thread's submissions with the worker
\* thread's internal enqueues, no two outbound messages of a connection
\* carry the same messageNumber.
C36_MessageNumbersUnique ==
    \A c \in Conn : \A p, q \in NumberedMessages(c) :
        p # q => conn[c].heap[p].messageNumber # conn[c].heap[q].messageNumber

\* Every per-connection container of s is empty.
ContainersEmpty(s) ==
    /\ s.outboundAcceptQueue = <<>> /\ s.acceptQueueBacklog = 0
    /\ s.outboundQueue = <<>>
    /\ s.inboundMessageQueue = <<>> /\ s.inboundQueueBacklog = 0
    /\ s.outboundPacketAckTrack = <<>>
    /\ s.inboundContentIDStamps = <<>>
    /\ s.outboundContentIDMessages = <<>>
    /\ s.fragmentedSends = <<>>
    /\ s.fragmentedReceives = <<>>

\* C37: the step in which Disconnect() ends with Close() leaves the accept
\* queue, the send queue, the inbound queue, the outbound ack tracker, both
\* content-id tables and both fragment managers of the connection empty.
C37_CloseEmptiesContainers ==
    [][\A c \in Conn :
          (appPc[c] = "setClosed" /\ (appPc[c])' = "idle")
          => ContainersEmpty((conn[c])')]_vars

\* How many places of the accept queue, the send queue and the
\* PacketAckTracks of c hold pool object p.
Holders(c, p) ==
    Cardinality({i \in DOMAIN conn[c].outboundAcceptQueue :
                    conn[c].outboundAcceptQueue[i] = p})
    + Cardinality({i \in DOMAIN conn[c].outboundQueue : conn[c].outboundQueue[i] = p})
    + Cardinality({x \in (DOMAIN conn[c].outboundPacketAckTrack) \X (1 .. PoolSize) :
                    /\ x[2] \in DOMAIN conn[c].outboundPacketAckTrack[x[1]].messages
                    /\ conn[c].outboundPacketAckTrack[x[1]].messages[x[2]] = p})

\* C38: single ownership of outbound messages.  In every reachable state no
\* message is in two places of the accept queue, the send queue and the
\* PacketAckTracks, and every message that is not freed is in exactly one.
C38_SingleOwnership ==
    \A c \in Conn : \A p \in Ptr :
        /\ Holders(c, p) <= 1
        /\ p \notin conn[c].freePtrs => Holders(c, p) = 1

\* A send of A has failed and a datagram of A has timed out: a message that
\* was sent before waits in the send queue again, and no PacketAckTrack
\* is left.
C38_Witness ==
    /\ faults.sendFails >= 1
    /\ faults.timeouts >= 1
    /\ conn["A"].outboundPacketAckTrack = <<>>
    /\ \E i \in DOMAIN conn["A"].outboundQueue :
          /\ conn["A"].heap[conn["A"].outboundQueue[i]].sendCount >= 1
          /\ Holders("A", conn["A"].outboundQueue[i]) = 1

\* C39: no dangling references to freed messages.  In every reachable state
\* no message that FreeMessage has returned to the pool is the value of a
\* key of the outbound content-id map or listed in a FragmentedTransfer.
C39_NoDanglingReferences ==
    \A c \in Conn : \A p \in conn[c].freePtrs :
        /\ \A key \in DOMAIN conn[c].outboundContentIDMessages :
              conn[c].outboundContentIDMessages[key] # p
        /\ \A h \in DOMAIN conn[c].fragmentedSends :
              p \notin conn[c].fragmentedSends[h].fragments

\* Buffer k is among the messages q lists.
ListsBuffer(q, k) == \E i \in DOMAIN q : q[i].data = BufferOf(k)

\* C40: under an application that keeps calling ProcessMessages, a message
\* that the worker has put on the inbound message queue is handed to the
\* application, also when the connection becomes Closed before the
\* application picks the message up.
C40_QueuedMessageDelivered ==
    \A k \in 1 .. MaxDiscSubmit :
        (k \in DOMAIN submitted /\ ListsBuffer(conn["A"].inboundMessageQueue, k))
        ~> (k \in DOMAIN submitted /\ ListsBuffer(conn["A"].received, k))

====
